---- MODULE Spec2Model ----
(***************************************************************************)
(* A model of the arithmetic compression library: the dictionary           *)
(* preprocessor, the frequency table builder, the 24-bit interval coder    *)
(* with its bit writer and reader, the artifact serialisation of           *)
(* simple_api, and the decoder.                                            *)
(*                                                                         *)
(* Bytes and symbols are naturals, byte strings are sequences of naturals. *)
(* A frequency entry is the tuple <<symbol_id, frequency, cumulative       *)
(* start>> of the source.  Every value of the runs modelled here is below  *)
(* 2^31, so the casts `as u32`, `as u64`, `as usize` of the source do not  *)
(* change a value and are not written.                                     *)
(***************************************************************************)
EXTENDS Integers, Sequences, FiniteSets, TLC

\* ------------------------------------------------------------- bounds

\* Longest input drawn from Alphabet in the initial states.
MaxLen == 3
\* Largest key set of a hash map whose iteration orders are all enumerated.
MaxPermKeys == 3
\* Symbols coded in a run of the encoder on a large frequency table.
MaxBigSteps == 3

\* ------------------------------------------------- program constants

ARITHMETIC_PRECISION_LIMIT == 16777215
FIRST_QTR == (ARITHMETIC_PRECISION_LIMIT \div 4) + 1
HALF == 2 * FIRST_QTR
THIRD_QTR == 3 * FIRST_QTR
\* Inputs shorter than this get no dictionary (library build only).
MIN_MANUSCRIPT_SIZE == 1000
\* truncate(25): the dictionary's capacity.
MAX_GRIMOIRE_WORDS == 25
\* Length of the reader's lookahead window, in bits.
WINDOW_BITS == 24

\* ------------------------------------------------------- arithmetic

Min(a, b) == IF a <= b THEN a ELSE b

RECURSIVE Pow2(_)
Pow2(n) == IF n = 0 THEN 1 ELSE 2 * Pow2(n - 1)

\* One bit of b taken into <<q, r>>: h is <<q, r>> for b \div 2.
MulModStep(h, a, b, t) ==
    LET q2 == 2 * h[1] + ((2 * h[2]) \div t)
        r2 == (2 * h[2]) % t
    IN  IF b % 2 = 1
        THEN <<q2 + ((r2 + a) \div t), (r2 + a) % t>>
        ELSE <<q2, r2>>

\* <<q, r>> with a * b = q * t + r and 0 <= r < t, for 0 <= a < t, computed
\* bit by bit of b so that no intermediate value leaves 32 bits (h: the
\* pair for b \div 2, computed once).
RECURSIVE MulMod(_, _, _)
MulMod(a, b, t) ==
    IF b = 0 THEN <<0, 0>>
    ELSE CHOOSE qr \in {MulModStep(h, a, b, t) :
                           h \in {MulMod(a, b \div 2, t)}} : TRUE

\* floor(a * b / t), the source's `(range * frequency) / total` in u64, where
\* the product cannot overflow.
MulDiv(a, b, t) ==
    IF b = 0 \/ a <= 2147483647 \div b
    THEN (a * b) \div t
    ELSE (a \div t) * b + MulMod(a % t, b, t)[1]

\* -------------------------------------------------------- bit writer

\* BitMagicWriter::conjure_new
NewWriter == [scroll |-> <<>>, cauldron |-> 0, brewing |-> 0, pending |-> 0]

\* The bits of a byte, most significant first.
ByteBits(b) == [i \in 1..8 |-> (b \div Pow2(8 - i)) % 2]

\* BitMagicWriter::write_bit: shift the accumulator left (u8: the top bit
\* falls off), or in the bit, push the byte when eight are gathered.
WriteBit(w, bit) ==
    LET c == ((w.cauldron * 2) % 256) + (bit % 2)
    IN  IF w.brewing + 1 = 8
        THEN [w EXCEPT !.scroll = Append(@, c), !.cauldron = 0, !.brewing = 0]
        ELSE [w EXCEPT !.cauldron = c, !.brewing = @ + 1]

\* n calls of write_bit in a row (x: the writer after the first, computed
\* once).
RECURSIVE WriteBits(_, _, _)
WriteBits(w, bit, n) ==
    IF n = 0 THEN w
    ELSE CHOOSE after \in {WriteBits(x, bit, n - 1) : x \in {WriteBit(w, bit)}} :
             TRUE

\* An output_bit that drops the pending bits.
OutputBitWithoutFollow(w, bit) ==
    [WriteBit(w, bit) EXCEPT !.pending = 0]

\* BitMagicWriter::output_bit
OutputBit(w, bit) ==
    [WriteBits(WriteBit(w, bit), 1 - bit, w.pending) EXCEPT !.pending = 0]

RECURSIVE OutputBits(_, _, _)
OutputBits(w, bit, n) ==
    IF n = 0 THEN w
    ELSE CHOOSE after \in {OutputBits(x, bit, n - 1) : x \in {OutputBit(w, bit)}} :
             TRUE

\* A bit_plus_follow whose loop takes its range before output_bit runs.
BitPlusFollowEarlyRange(w, bit) ==
    [OutputBits(OutputBit(w, bit), 1 - bit, w.pending) EXCEPT !.pending = 0]

\* BitMagicWriter::bit_plus_follow: the loop's range is read after
\* output_bit has returned.
BitPlusFollow(w, bit) ==
    LET w1 == OutputBit(w, bit)
    IN  [OutputBits(w1, 1 - bit, w1.pending) EXCEPT !.pending = 0]

\* A completion that leaves the last, partial byte out of the stream.
CompleteWithoutPadding(w) ==
    LET w1 == [w EXCEPT !.pending = @ + 1]
    IN  IF w1.pending > 0 THEN BitPlusFollow(w1, 1) ELSE w1

\* A completion that does not add the final pending bit.
CompleteWithoutIncrement(w) ==
    LET w2 == BitPlusFollow(w, 1)
    IN  IF w2.brewing > 0
        THEN [w2 EXCEPT
                !.cauldron = (w2.cauldron * Pow2(8 - w2.brewing)) % 256,
                !.scroll = Append(@, (w2.cauldron * Pow2(8 - w2.brewing)) % 256)]
        ELSE w2

\* A completion that flushes with bit_plus_follow(0).
CompleteWithZero(w) ==
    LET w1 == [w EXCEPT !.pending = @ + 1]
        w2 == IF w1.pending > 0 THEN BitPlusFollow(w1, 0) ELSE w1
    IN  IF w2.brewing > 0
        THEN [w2 EXCEPT
                !.cauldron = (w2.cauldron * Pow2(8 - w2.brewing)) % 256,
                !.scroll = Append(@, (w2.cauldron * Pow2(8 - w2.brewing)) % 256)]
        ELSE w2

\* BitMagicWriter::complete_compression_ritual
CompleteCompressionRitual(w) ==
    LET w1 == [w EXCEPT !.pending = @ + 1]
        w2 == IF w1.pending > 0 THEN BitPlusFollow(w1, 1) ELSE w1
    IN  IF w2.brewing > 0
        THEN [w2 EXCEPT
                !.cauldron = (w2.cauldron * Pow2(8 - w2.brewing)) % 256,
                !.scroll = Append(@, (w2.cauldron * Pow2(8 - w2.brewing)) % 256)]
        ELSE w2

\* The bits output_bit gives to write_bit, in the order of its calls: the
\* bit, then its opposite once per pending bit.
OutputBitCalls(w, bit) == <<bit>> \o [i \in 1..w.pending |-> 1 - bit]

\* The bits n calls of output_bit in a row give to write_bit.
RECURSIVE OutputBitsCalls(_, _, _)
OutputBitsCalls(w, bit, n) ==
    IF n = 0 THEN <<>>
    ELSE OutputBitCalls(w, bit) \o OutputBitsCalls(OutputBit(w, bit), bit, n - 1)

\* The bits bit_plus_follow gives to write_bit: those of output_bit, then
\* those of its own loop, whose range is read after output_bit has returned.
BitPlusFollowCalls(w, bit) ==
    LET w1 == OutputBit(w, bit)
    IN  OutputBitCalls(w, bit) \o OutputBitsCalls(w1, 1 - bit, w1.pending)

\* The bits complete_compression_ritual gives to write_bit.
CompleteCalls(w) ==
    LET w1 == [w EXCEPT !.pending = @ + 1]
    IN  IF w1.pending > 0 THEN BitPlusFollowCalls(w1, 1) ELSE <<>>

\* ---------------------------------------------------- interval codec

\* A narrowing whose upper bound lacks the "- 1".
NarrowWithoutMinusOne(low, high, symStart, symEnd, total) ==
    LET range == high - low + 1
    IN  <<low + MulDiv(range, symStart, total),
          low + MulDiv(range, symEnd, total)>>

\* A narrowing with the symbol's start and end exchanged.
NarrowSwapped(low, high, symStart, symEnd, total) ==
    LET range == high - low + 1
    IN  <<low + MulDiv(range, symEnd, total),
          low + MulDiv(range, symStart, total) - 1>>

\* The narrowing of encode_mystical_symbol and update_mystical_intervals:
\* <<low', high'>>.
Narrow(low, high, symStart, symEnd, total) ==
    LET range == high - low + 1
    IN  <<low + MulDiv(range, symStart, total),
          low + MulDiv(range, symEnd, total) - 1>>

\* A classification without the deferral: the loop stops on an interval
\* that straddles the middle, however narrow.
ScaleCaseWithoutE3(low, high) ==
    IF high < HALF THEN "E1"
    ELSE IF low >= HALF THEN "E2"
    ELSE "stop"

\* The case one iteration of normalize takes.
ScaleCase(low, high) ==
    IF high < HALF THEN "E1"
    ELSE IF low >= HALF THEN "E2"
    ELSE IF low >= FIRST_QTR /\ high < THIRD_QTR THEN "E3"
    ELSE "stop"

\* What the case subtracts from low, high (and the reader's window).
ScaleOffset(c) ==
    IF c = "E2" THEN HALF ELSE IF c = "E3" THEN FIRST_QTR ELSE 0

\* BitMagicWriter::normalize run to its `break`, on a record with low, high
\* and writer.
RECURSIVE NormalizeWriter(_)
NormalizeWriter(st) ==
    LET c == ScaleCase(st.low, st.high)
    IN  IF c = "stop" THEN st
        ELSE NormalizeWriter(
                 [st EXCEPT
                    !.low = 2 * (@ - ScaleOffset(c)),
                    !.high = 2 * (@ - ScaleOffset(c)) + 1,
                    !.writer = IF c = "E1" THEN BitPlusFollow(@, 0)
                               ELSE IF c = "E2" THEN BitPlusFollow(@, 1)
                               ELSE [@ EXCEPT !.pending = @ + 1]])

\* BitMagicWriter::encode_mystical_symbol
EncodeMysticalSymbol(st, symStart, symEnd, total) ==
    LET n == Narrow(st.low, st.high, symStart, symEnd, total)
    IN  NormalizeWriter([st EXCEPT !.low = n[1], !.high = n[2]])

\* -------------------------------------------------- frequency table

Bump(m, k) ==
    IF k \in DOMAIN m THEN [m EXCEPT ![k] = @ + 1] ELSE m @@ (k :> 1)

\* The counting loop over a hash map: key -> occurrences.
\* (m: the map before the loop; each key ends with as many more as the
\* sequence has of it.)
Tally(seq, m) ==
    [k \in DOMAIN m \cup {seq[i] : i \in 1..Len(seq)} |->
        (IF k \in DOMAIN m THEN m[k] ELSE 0)
        + Cardinality({i \in 1..Len(seq) : seq[i] = k})]

\* A stable sort of tuples by their first component, ascending (sort_by_key).
RECURSIVE InsertByKey(_, _)
InsertByKey(e, s) ==
    IF s = <<>> THEN <<e>>
    ELSE IF e[1] < Head(s)[1] THEN <<e>> \o s
    ELSE <<Head(s)>> \o InsertByKey(e, Tail(s))

RECURSIVE SortByKey(_)
SortByKey(s) ==
    IF s = <<>> THEN <<>>
    ELSE InsertByKey(s[Len(s)], SortByKey(SubSeq(s, 1, Len(s) - 1)))

\* The running cumulative offsets: <<symbol, frequency, start>> per pair.
RECURSIVE Accumulate(_, _)
Accumulate(pairs, position) ==
    IF pairs = <<>> THEN <<>>
    ELSE <<<<Head(pairs)[1], Head(pairs)[2], position>>>>
         \o Accumulate(Tail(pairs), position + Head(pairs)[2])

RECURSIVE SumFrequencies(_)
SumFrequencies(pairs) ==
    IF pairs = <<>> THEN 0 ELSE Head(pairs)[2] + SumFrequencies(Tail(pairs))

AnalyzeUnsorted(symbols, order) ==
    LET m == Tally(symbols, <<>>)
        pairs == [i \in 1..Len(order) |-> <<order[i], m[order[i]]>>]
    IN  [frequency_entries |-> Accumulate(pairs, 0),
         total_frequency_mass |-> SumFrequencies(pairs)]

\* analyze_symbolic_frequencies, `order` being the order in which the hash
\* map of counts is iterated.
AnalyzeSymbolicFrequencies(symbols, order) ==
    LET m == Tally(symbols, <<>>)
        pairs == SortByKey([i \in 1..Len(order) |-> <<order[i], m[order[i]]>>])
    IN  [frequency_entries |-> Accumulate(pairs, 0),
         total_frequency_mass |-> SumFrequencies(pairs)]

\* The first entry of the table for a symbol id, 0 when there is none
\* (iter().find(...)).
RECURSIVE FindSymbol(_, _, _)
FindSymbol(codex, sym, i) ==
    IF i > Len(codex) THEN 0
    ELSE IF codex[i][1] = sym THEN i
    ELSE FindSymbol(codex, sym, i + 1)

\* One iteration of the coding loop of weave_compression_spell on
\* [low, high, writer, pos], pos the symbol's index (from 1); a symbol
\* without an entry is passed over.
EncodeStep(st, syms, table, total) ==
    LET e == FindSymbol(table, syms[st.pos], 1)
        after == IF e = 0 THEN st
                 ELSE EncodeMysticalSymbol(st, table[e][3],
                          table[e][3] + table[e][2], total)
    IN  [after EXCEPT !.pos = st.pos + 1]

\* Up to n iterations of that loop: the first half of them, then the rest.
RECURSIVE EncodeRun(_, _, _, _, _)
EncodeRun(st, syms, table, total, n) ==
    IF n = 0 \/ st.pos > Len(syms) THEN st
    ELSE IF n = 1 THEN EncodeStep(st, syms, table, total)
    ELSE EncodeRun(EncodeRun(st, syms, table, total, n \div 2),
                   syms, table, total, n - (n \div 2))

\* ---------------------------------------------- dictionary discovery

IsAsciiAlphabetic(b) == (65 <= b /\ b <= 90) \/ (97 <= b /\ b <= 122)

\* U+FFFD, which from_utf8_lossy puts in place of an invalid byte.
REPLACEMENT_CHARACTER == 65533

\* String::from_utf8_lossy(bytes).chars(): ASCII bytes are themselves, a
\* valid two-byte sequence is one character, any other byte is replaced.
\* (Lead bytes of three- and four-byte sequences, 0xE0-0xF4, are not among
\* the bytes the initial states draw.)
RECURSIVE Utf8LossyChars(_)
Utf8LossyChars(b) ==
    IF b = <<>> THEN <<>>
    ELSE IF b[1] < 128 THEN <<b[1]>> \o Utf8LossyChars(Tail(b))
    ELSE IF /\ 194 <= b[1] /\ b[1] <= 223 /\ Len(b) >= 2
            /\ 128 <= b[2] /\ b[2] <= 191
         THEN <<(b[1] - 192) * 64 + (b[2] - 128)>>
              \o Utf8LossyChars(SubSeq(b, 3, Len(b)))
    ELSE <<REPLACEMENT_CHARACTER>> \o Utf8LossyChars(Tail(b))

\* The UTF-8 bytes of a character (String::as_bytes, into_owned).
Utf8Encode(c) ==
    IF c < 128 THEN <<c>>
    ELSE IF c < 2048 THEN <<192 + (c \div 64), 128 + (c % 64)>>
    ELSE <<224 + (c \div 4096), 128 + ((c \div 64) % 64), 128 + (c % 64)>>

RECURSIVE Utf8Bytes(_)
Utf8Bytes(chars) ==
    IF chars = <<>> THEN <<>>
    ELSE Utf8Encode(Head(chars)) \o Utf8Bytes(Tail(chars))

\* One iteration of the tokenising loop of
\* discover_profitable_word_enchantments on <<pos, current_word_buffer,
\* word_frequency_almanac>>, pos the character's index (from 1).
TokenizeStep(chars, st) ==
    LET c == chars[st[1]]
    IN  IF IsAsciiAlphabetic(c) \/ c = 39
        THEN <<st[1] + 1, Append(st[2], c), st[3]>>
        ELSE <<st[1] + 1, <<>>,
               IF Len(st[2]) >= 3 THEN Bump(st[3], st[2]) ELSE st[3]>>

\* Up to n iterations of that loop: the first half of them, then the rest.
RECURSIVE TokenizeRun(_, _, _)
TokenizeRun(chars, st, n) ==
    IF n = 0 \/ st[1] > Len(chars) THEN st
    ELSE IF n = 1 THEN TokenizeStep(chars, st)
    ELSE TokenizeRun(chars, TokenizeRun(chars, st, n \div 2), n - (n \div 2))

\* The word still in the buffer when the loop ends is counted too.
CountLastWord(buffer, almanac) ==
    IF Len(buffer) >= 3 THEN Bump(almanac, buffer) ELSE almanac

\* The tokenising loop and what follows it: runs of ASCII letters and
\* apostrophes, counted when at least 3 long.
Tokenize(chars, buffer, almanac) ==
    LET r == TokenizeRun(chars, <<1, buffer, almanac>>, Len(chars))
    IN  CountLastWord(r[2], r[3])

\* word_frequency_almanac: word -> occurrences.
WordFrequencyAlmanac(x) == Tokenize(Utf8LossyChars(x), <<>>, <<>>)

CompressionSavings(word, freq) == Len(word) * freq - (Len(word) + 4)

\* A filter that lets words of three occurrences through.
RECURSIVE ProfitableFromThree(_, _)
ProfitableFromThree(order, almanac) ==
    IF order = <<>> THEN <<>>
    ELSE LET word == Head(order)
             freq == almanac[word]
             rest == ProfitableFromThree(Tail(order), almanac)
         IN  IF freq > 2 /\ CompressionSavings(word, freq) > 0
             THEN <<<<0 - CompressionSavings(word, freq), word, freq>>>> \o rest
             ELSE rest

\* filter_map over the almanac in iteration order: the candidates, each
\* <<-savings, word, frequency>> (the sort key Reverse(savings) first).
RECURSIVE ProfitableCandidates(_, _)
ProfitableCandidates(order, almanac) ==
    IF order = <<>> THEN <<>>
    ELSE LET word == Head(order)
             freq == almanac[word]
             rest == ProfitableCandidates(Tail(order), almanac)
         IN  IF freq > 3 /\ CompressionSavings(word, freq) > 0
             THEN <<<<0 - CompressionSavings(word, freq), word, freq>>>> \o rest
             ELSE rest

\* The selection of discover_profitable_word_enchantments: the candidates
\* sorted by savings, descending, cut to 25, their words.
SelectProfitableWords(order, almanac) ==
    LET sorted == SortByKey(ProfitableCandidates(order, almanac))
        kept == SubSeq(sorted, 1, Min(MAX_GRIMOIRE_WORDS, Len(sorted)))
    IN  [i \in 1..Len(kept) |-> kept[i][2]]

\* A size check one byte lower.
BelowLowerMinimum(x, build) == ~build /\ Len(x) < MIN_MANUSCRIPT_SIZE - 1

\* The size check of discover_profitable_word_enchantments, compiled in
\* when build (cfg(test)) is false.
BelowMinimumSize(x, build) == ~build /\ Len(x) < MIN_MANUSCRIPT_SIZE

\* discover_profitable_word_enchantments; `order` is the order in which the
\* almanac (a hash map) is iterated, testBuild is cfg(test).
DiscoverProfitableWordEnchantments(x, order, testBuild) ==
    IF BelowMinimumSize(x, testBuild) THEN <<>>
    ELSE SelectProfitableWords(order, WordFrequencyAlmanac(x))

\* ------------------------------------------------------ substitution

\* A match that looks at the word's bytes only, not at its neighbours.
WordMatchesAnywhere(x, w, pos) ==
    /\ pos - 1 + Len(w) <= Len(x)
    /\ \A o \in 1..Len(w) : x[pos + o - 1] = w[o]

\* Whether dictionary word w stands at position pos (from 1) of x, byte for
\* byte and bounded by non-letters or the ends of x.
WordMatchesAt(x, w, pos) ==
    /\ pos - 1 + Len(w) <= Len(x)
    /\ \A o \in 1..Len(w) : x[pos + o - 1] = w[o]
    /\ pos = 1 \/ ~IsAsciiAlphabetic(x[pos - 1])
    /\ pos + Len(w) > Len(x) \/ ~IsAsciiAlphabetic(x[pos + Len(w)])

\* A search that finds no word.
NoMatch(x, grimoire, pos, k) == 0

\* A search that takes the last word that matches, not the first.
LastMatch(x, grimoire, pos, k) ==
    LET hits == {i \in k..Len(grimoire) : WordMatchesAt(x, grimoire[i], pos)}
    IN  IF hits = {} THEN 0 ELSE CHOOSE i \in hits : \A j \in hits : j <= i

\* The first dictionary index (from 1) at or after k whose word matches at
\* pos; 0 when none does.
RECURSIVE FirstMatch(_, _, _, _)
FirstMatch(x, grimoire, pos, k) ==
    IF k > Len(grimoire) THEN 0
    ELSE IF WordMatchesAt(x, grimoire[k], pos) THEN k
    ELSE FirstMatch(x, grimoire, pos, k + 1)

\* One iteration of the loop of transform_manuscript_to_symbols on
\* <<the symbols pushed, the position (from 1)>>: a letter or apostrophe
\* where a dictionary word stands gives the word's id and skips the word,
\* any other byte gives itself.
TransformStep(x, grimoire, st) ==
    LET pos == st[2]
        k == IF IsAsciiAlphabetic(x[pos]) \/ x[pos] = 39
             THEN FirstMatch(x, grimoire, pos, 1)
             ELSE 0
    IN  IF k > 0 THEN <<Append(st[1], 256 + (k - 1)), pos + Len(grimoire[k])>>
        ELSE <<Append(st[1], x[pos]), pos + 1>>

\* Up to n iterations of that loop: the first half of them, then the rest.
RECURSIVE TransformRun(_, _, _, _)
TransformRun(x, grimoire, st, n) ==
    IF n = 0 \/ st[2] > Len(x) THEN st
    ELSE IF n = 1 THEN TransformStep(x, grimoire, st)
    ELSE TransformRun(x, grimoire, TransformRun(x, grimoire, st, n \div 2),
                      n - (n \div 2))

\* The loop run to its end (it makes at most one iteration per byte).
TransformFrom(x, grimoire, pos) ==
    TransformRun(x, grimoire, <<<<>>, pos>>, Len(x))[1]

\* transform_manuscript_to_symbols
TransformManuscriptToSymbols(x, grimoire) == TransformFrom(x, grimoire, 1)

\* reconstruct_original_manuscript: a reference past the dictionary's end
\* adds nothing.
RECURSIVE ReconstructOriginalManuscript(_, _)
ReconstructOriginalManuscript(symbols, grimoire) ==
    IF symbols = <<>> THEN <<>>
    ELSE LET s == Head(symbols)
             rest == ReconstructOriginalManuscript(Tail(symbols), grimoire)
         IN  IF s <= 255 THEN <<s>> \o rest
             ELSE IF s - 256 < Len(grimoire) THEN grimoire[s - 256 + 1] \o rest
             ELSE rest

\* -------------------------------------------------------- bit reader

\* A read that takes the bits of a byte from the least significant.
ReadBitValueLsbFirst(r) ==
    IF r.byte_pos >= Len(r.scroll) THEN 0
    ELSE (r.scroll[r.byte_pos + 1] \div Pow2(r.bit_pos)) % 2

\* BitMagicReader::read_bit, the bit it returns: 0 past the end.
ReadBitValue(r) ==
    IF r.byte_pos >= Len(r.scroll) THEN 0
    ELSE ByteBits(r.scroll[r.byte_pos + 1])[r.bit_pos + 1]

\* A read that moves on even past the end of the buffer.
ReadBitAdvanceUnbounded(r) ==
    IF r.bit_pos + 1 = 8
    THEN [r EXCEPT !.bit_pos = 0, !.byte_pos = @ + 1]
    ELSE [r EXCEPT !.bit_pos = @ + 1]

\* BitMagicReader::read_bit, the reader it leaves: no advance past the end.
ReadBitAdvance(r) ==
    IF r.byte_pos >= Len(r.scroll) THEN r
    ELSE IF r.bit_pos + 1 = 8
    THEN [r EXCEPT !.bit_pos = 0, !.byte_pos = @ + 1]
    ELSE [r EXCEPT !.bit_pos = @ + 1]

\* A shift of the window that reads the bit and does not take it in.
ShiftInZero(r) ==
    [ReadBitAdvance(r) EXCEPT !.tracker = 2 * r.tracker]

\* tracker = 2 * tracker + read_bit()  (also (tracker << 1) | read_bit()).
ShiftInBit(r) ==
    [ReadBitAdvance(r) EXCEPT !.tracker = 2 * r.tracker + ReadBitValue(r)]

\* n reads in a row, each made on the reader the one before it left (x: that
\* reader, computed once).
RECURSIVE ShiftInBits(_, _)
ShiftInBits(r, n) ==
    IF n = 0 THEN r
    ELSE CHOOSE after \in {ShiftInBits(x, n - 1) : x \in {ShiftInBit(r)}} : TRUE

\* BitMagicReader::conjure_from_scroll
ConjureFromScroll(scroll) ==
    ShiftInBits([scroll |-> scroll, byte_pos |-> 0, bit_pos |-> 0, tracker |-> 0],
                WINDOW_BITS)

\* BitMagicReader::decode_mystical_target, for tracker >= low and total >= 1:
\* floor(((tracker - low + 1) * total - 1) / range), the product taken in
\* pieces when it leaves 32 bits.
DecodeMysticalTarget(tracker, total, low, high) ==
    LET range == high - low + 1
        a == tracker - low + 1
    IN  IF a <= 2147483647 \div total
        THEN (a * total - 1) \div range
        ELSE LET h == MulMod(a % range, total, range)
                 q == (a \div range) * total + h[1]
             IN  IF h[2] >= 1 THEN q ELSE q - 1

\* The first entry whose range holds the target, 0 when none does.
RECURSIVE FindByTarget(_, _, _)
FindByTarget(codex, target, i) ==
    IF i > Len(codex) THEN 0
    ELSE IF target >= codex[i][3] /\ target < codex[i][3] + codex[i][2] THEN i
    ELSE FindByTarget(codex, target, i + 1)

\* The symbol the decoder resolves for a target: the entry found, else the
\* first entry's symbol, else 0.
DiscoveredSymbol(codex, target) ==
    LET i == FindByTarget(codex, target, 1)
    IN  IF i > 0 THEN codex[i][1]
        ELSE IF codex = <<>> THEN 0
        ELSE codex[1][1]

\* ----------------------------------------------------- serialisation

EmptyArtifact ==
    [mystical_frequency_codex |-> <<>>, total_frequency_essence |-> 0,
     compressed_bit_stream |-> <<>>, mystical_word_grimoire |-> <<>>]

\* The bytes of an n-byte unsigned integer, most significant first.
RECURSIVE ToBeBytes(_, _)
ToBeBytes(v, n) ==
    IF n = 0 THEN <<>> ELSE ToBeBytes(v \div 256, n - 1) \o <<v % 256>>

\* to_le_bytes of an n-byte unsigned integer.
RECURSIVE ToLeBytes(_, _)
ToLeBytes(v, n) ==
    IF n = 0 THEN <<>> ELSE <<v % 256>> \o ToLeBytes(v \div 256, n - 1)

\* from_le_bytes
RECURSIVE FromLeBytes(_)
FromLeBytes(b) ==
    IF b = <<>> THEN 0 ELSE Head(b) + 256 * FromLeBytes(Tail(b))

RECURSIVE SerializeWords(_)
SerializeWords(words) ==
    IF words = <<>> THEN <<>>
    ELSE ToLeBytes(Len(Head(words)), 4) \o Head(words)
         \o SerializeWords(Tail(words))

RECURSIVE SerializeEntries(_)
SerializeEntries(codex) ==
    IF codex = <<>> THEN <<>>
    ELSE ToLeBytes(Head(codex)[1], 4) \o ToLeBytes(Head(codex)[2], 8)
         \o ToLeBytes(Head(codex)[3], 8) \o SerializeEntries(Tail(codex))

\* The buffer compress_data builds from the artifact.
SerializeArtifact(a) ==
    ToLeBytes(Len(a.mystical_word_grimoire), 4)
    \o SerializeWords(a.mystical_word_grimoire)
    \o ToLeBytes(Len(a.mystical_frequency_codex), 4)
    \o SerializeEntries(a.mystical_frequency_codex)
    \o ToLeBytes(a.total_frequency_essence, 8)
    \o ToLeBytes(Len(a.compressed_bit_stream), 4)
    \o a.compressed_bit_stream

\* A read that is never refused.
CanReadUnchecked(buf, cursor, n) == TRUE

\* Whether the n bytes at cursor (from 0) lie inside the buffer: the bounds
\* check of an index or slice expression, which panics otherwise.
CanRead(buf, cursor, n) == cursor + n <= Len(buf)

\* The n bytes at cursor.
Slice(buf, cursor, n) ==
    [i \in 1..n |-> IF cursor + i <= Len(buf) THEN buf[cursor + i] ELSE 0]

Panicked == [panicked |-> TRUE, cursor |-> 0, value |-> <<>>]

Parsed(cursor, value) == [panicked |-> FALSE, cursor |-> cursor, value |-> value]

\* read_u32 / read_u64
ReadInt(buf, cursor, n) ==
    IF CanRead(buf, cursor, n)
    THEN Parsed(cursor + n, FromLeBytes(Slice(buf, cursor, n)))
    ELSE Panicked

\* The dictionary loop of decompress_data.
RECURSIVE ParseWords(_, _, _, _)
ParseWords(buf, cursor, count, words) ==
    IF count = 0 THEN Parsed(cursor, words)
    ELSE LET len == ReadInt(buf, cursor, 4)
         IN  IF len.panicked THEN Panicked
             ELSE IF ~CanRead(buf, len.cursor, len.value) THEN Panicked
             ELSE ParseWords(buf, len.cursor + len.value, count - 1,
                      Append(words,
                          Utf8Bytes(Utf8LossyChars(Slice(buf, len.cursor, len.value)))))

\* The frequency table loop of decompress_data.
RECURSIVE ParseEntries(_, _, _, _)
ParseEntries(buf, cursor, count, entries) ==
    IF count = 0 THEN Parsed(cursor, entries)
    ELSE LET symbol == ReadInt(buf, cursor, 4)
             freq == ReadInt(buf, symbol.cursor, 8)
             start == ReadInt(buf, freq.cursor, 8)
         IN  IF symbol.panicked THEN Panicked
             ELSE IF freq.panicked THEN Panicked
             ELSE IF start.panicked THEN Panicked
             ELSE ParseEntries(buf, start.cursor, count - 1,
                      Append(entries, <<symbol.value, freq.value, start.value>>))

\* decompress_data up to the artifact it rebuilds: value is the artifact.
ParseArtifact(buf) ==
    LET wordCount == ReadInt(buf, 0, 4)
        words == ParseWords(buf, wordCount.cursor, wordCount.value, <<>>)
        freqCount == ReadInt(buf, words.cursor, 4)
        entries == ParseEntries(buf, freqCount.cursor, freqCount.value, <<>>)
        total == ReadInt(buf, entries.cursor, 8)
        streamLen == ReadInt(buf, total.cursor, 4)
    IN  IF wordCount.panicked THEN Panicked
        ELSE IF words.panicked THEN Panicked
        ELSE IF freqCount.panicked THEN Panicked
        ELSE IF entries.panicked THEN Panicked
        ELSE IF total.panicked THEN Panicked
        ELSE IF streamLen.panicked THEN Panicked
        ELSE IF ~CanRead(buf, streamLen.cursor, streamLen.value) THEN Panicked
        ELSE Parsed(streamLen.cursor + streamLen.value,
                 [mystical_frequency_codex |-> entries.value,
                  total_frequency_essence |-> total.value,
                  compressed_bit_stream |->
                      Slice(buf, streamLen.cursor, streamLen.value),
                  mystical_word_grimoire |-> words.value])

\* ------------------------------------------- hash map iteration order

RECURSIVE SeqOfSet(_)
SeqOfSet(S) ==
    IF S = {} THEN <<>>
    ELSE LET e == CHOOSE v \in S : TRUE IN <<e>> \o SeqOfSet(S \ {e})

Rotate(s, k) == [i \in 1..Len(s) |-> s[((i + k - 1) % Len(s)) + 1]]

Reverse(s) == [i \in 1..Len(s) |-> s[Len(s) + 1 - i]]

\* Orders in which a hash map with key set S may be iterated: every order
\* for up to MaxPermKeys keys, the rotations of one enumeration and of its
\* reverse for more.
HashOrders(S) ==
    LET base == SeqOfSet(S)
        n == Len(base)
    IN  IF n = 0 THEN {<<>>}
        ELSE IF n <= MaxPermKeys
        THEN {[i \in 1..n |-> p[base[i]]] : p \in Permutations(S)}
        ELSE {Rotate(base, k) : k \in 0..(n - 1)}
             \cup {Reverse(Rotate(base, k)) : k \in 0..(n - 1)}

\* ------------------------------------------------------------- state

VARIABLES
    pc,          \* position of the program
    testBuild,   \* cfg(test): the build without the minimum-size threshold
    manuscript,  \* original_manuscript, the bytes given to the encoder
    almanac,     \* discover: word_frequency_almanac, when the selection is
                 \* followed on its own
    cursor,      \* bytes consumed by the running loop of discover or
                 \* transform (byte_position), when followed step by step
    wordBuffer,  \* discover: current_word_buffer
    grimoire,    \* weave: mystical_word_grimoire (also the words handed to
                 \* a direct call of transform / reconstruct)
    symbols,     \* weave: symbolic_incantations
    codex,       \* weave: frequency_analysis_results.frequency_entries
    totalMass,   \* weave: frequency_analysis_results.total_frequency_mass
    symPos,      \* weave: index (from 1) of the next symbol of the loop
    low,         \* weave: interval_low
    high,        \* weave: interval_high
    writer,      \* weave: bit_conjurer and the buffer it borrows
    scaleSteps,  \* iterations done by the running call of normalize
    artifact,    \* the CompressionArtifact weave returned
    calls,       \* number of the current call of weave on this manuscript
    prior,       \* the artifact returned by the first call
    wire,        \* the buffer compress_data returned
    compressed,  \* the buffer given to decompress_data
    enchanted,   \* the artifact given to unweave_compression_spell
    reader,      \* unweave: mystical_bit_reader
    dlow,        \* unweave: interval_low
    dhigh,       \* unweave: interval_high
    decoded,     \* unweave: decoded_symbols
    discovered,  \* unweave: discovered_symbol of the running iteration
    restored,    \* the bytes unweave_compression_spell returned
    written,     \* the bits given to write_bit, in the order of the calls
    received,    \* the bits read_bit returned, in the order of the calls
    pendingBefore \* pending_mystical_bits when the last call on the writer
                 \* began

scanVars == <<cursor, wordBuffer>>
channelVars == <<written, received, pendingBefore>>
inputVars == <<testBuild, manuscript, almanac, scanVars, channelVars>>
weaveVars == <<grimoire, symbols, codex, totalMass, symPos, low, high, writer,
               artifact>>
callVars == <<calls, prior>>
apiVars == <<wire, compressed>>
decVars == <<enchanted, reader, dlow, dhigh, decoded, discovered, restored>>
vars == <<pc, inputVars, weaveVars, scaleSteps, callVars, apiVars, decVars>>

\* More iterations than this of one call of normalize are not followed.
MaxScaleSteps == 26

\* ------------------------------------------------------------ inputs

\* Bytes of the short inputs: space, two letters, a non-ASCII byte.
Alphabet == {32, 97, 98, 160}

Sp == <<32>>
The == <<116, 104, 101>>
Its == <<105, 116, 39, 115>>
Abc == <<97, 98, 99>>
Xyz == <<120, 121, 122>>

\* "the the the the": one word frequent enough for the dictionary.
TextThe == The \o Sp \o The \o Sp \o The \o Sp \o The
\* "it's it's it's it's": a word with an apostrophe.
TextIts == Its \o Sp \o Its \o Sp \o Its \o Sp \o Its
\* "abc xyz abc xyz abc xyz abc xyz": two words of equal savings.
TextTie == Abc \o Sp \o Xyz \o Sp \o Abc \o Sp \o Xyz \o Sp
           \o Abc \o Sp \o Xyz \o Sp \o Abc \o Sp \o Xyz
\* "theme the theory the"
TextTheme == <<116, 104, 101, 109, 101>> \o Sp \o The \o Sp
             \o <<116, 104, 101, 111, 114, 121>> \o Sp \o The

Texts == {TextThe, TextIts, TextTie}

ShortInputs == UNION {[1..n -> Alphabet] : n \in 0..MaxLen}

Inputs == ShortInputs \cup Texts

NoReader == [scroll |-> <<>>, byte_pos |-> 0, bit_pos |-> 0, tracker |-> 0]

\* The variables of a call that has not started.
EncoderIdle ==
    /\ grimoire = <<>> /\ symbols = <<>> /\ codex = <<>> /\ totalMass = 0
    /\ symPos = 1 /\ low = 0 /\ high = ARITHMETIC_PRECISION_LIMIT
    /\ writer = NewWriter /\ scaleSteps = 0 /\ artifact = EmptyArtifact

DecoderIdle ==
    /\ enchanted = EmptyArtifact /\ reader = NoReader
    /\ dlow = 0 /\ dhigh = ARITHMETIC_PRECISION_LIMIT
    /\ decoded = <<>> /\ discovered = 0 /\ restored = <<>>

Init ==
    /\ pc = "start"
    /\ testBuild \in BOOLEAN
    /\ manuscript \in Inputs
    /\ almanac = <<>> /\ cursor = 0 /\ wordBuffer = <<>>
    /\ EncoderIdle
    /\ calls = 1 /\ prior = EmptyArtifact
    /\ wire = <<>> /\ compressed = <<>>
    /\ written = <<>> /\ received = <<>> /\ pendingBefore = 0
    /\ DecoderIdle

\* ----------------------------------------------------------- encoder

\* weave_compression_spell up to its loop: dictionary, symbols, frequency
\* table, a fresh writer and the full interval.
WeaveBegin ==
    /\ pc = "start"
    /\ \E wordOrder \in HashOrders(DOMAIN WordFrequencyAlmanac(manuscript)) :
         LET g == DiscoverProfitableWordEnchantments(manuscript, wordOrder, testBuild)
             syms == TransformManuscriptToSymbols(manuscript, g)
         IN  \E symOrder \in HashOrders(DOMAIN Tally(syms, <<>>)) :
               LET fa == AnalyzeSymbolicFrequencies(syms, symOrder)
               IN  /\ grimoire' = g
                   /\ symbols' = syms
                   /\ codex' = fa.frequency_entries
                   /\ totalMass' = fa.total_frequency_mass
    /\ symPos' = 1 /\ low' = 0 /\ high' = ARITHMETIC_PRECISION_LIMIT
    /\ writer' = NewWriter /\ scaleSteps' = 0
    /\ pc' = "encode"
    /\ UNCHANGED <<inputVars, artifact, callVars, apiVars, decVars>>

\* One iteration of the loop of weave_compression_spell, up to the call of
\* normalize: look the symbol up and narrow the interval; a symbol without
\* an entry is passed over.  (A high below 0 is the u64 subtraction
\* underflowing: a panic in a debug build, a wrap to 2^32-1 in a release
\* build; the call is followed no further.)
EncodeSymbol ==
    /\ pc = "encode"
    /\ symPos <= Len(symbols)
    /\ LET e == FindSymbol(codex, symbols[symPos], 1)
       IN  IF e = 0
           THEN /\ symPos' = symPos + 1
                /\ UNCHANGED <<pc, low, high, scaleSteps>>
           ELSE LET n == Narrow(low, high, codex[e][3],
                                codex[e][3] + codex[e][2], totalMass)
                IN  /\ low' = n[1]
                    /\ high' = n[2]
                    /\ scaleSteps' = 0
                    /\ pc' = IF n[2] < 0 THEN "subtract_overflow"
                             ELSE "enc_normalize"
                    /\ UNCHANGED symPos
    /\ UNCHANGED <<inputVars, grimoire, symbols, codex, totalMass, writer,
                   artifact, callVars, apiVars, decVars>>

\* One iteration of the loop of BitMagicWriter::normalize; on `break` the
\* symbol is done.
EncNormalize ==
    /\ pc = "enc_normalize"
    /\ scaleSteps < MaxScaleSteps
    /\ LET c == ScaleCase(low, high)
       IN  IF c = "stop"
           THEN /\ pc' = "encode"
                /\ symPos' = symPos + 1
                /\ UNCHANGED <<low, high, writer, scaleSteps>>
           ELSE /\ writer' = IF c = "E1" THEN BitPlusFollow(writer, 0)
                             ELSE IF c = "E2" THEN BitPlusFollow(writer, 1)
                             ELSE [writer EXCEPT !.pending = @ + 1]
                /\ low' = 2 * (low - ScaleOffset(c))
                /\ high' = 2 * (high - ScaleOffset(c)) + 1
                /\ scaleSteps' = scaleSteps + 1
                /\ UNCHANGED <<pc, symPos>>
    /\ UNCHANGED <<inputVars, grimoire, symbols, codex, totalMass, artifact,
                   callVars, apiVars, decVars>>

\* The end of weave_compression_spell: complete the stream, return the
\* artifact.
EncodeComplete ==
    /\ pc = "encode"
    /\ symPos > Len(symbols)
    /\ writer' = CompleteCompressionRitual(writer)
    /\ artifact' = [mystical_frequency_codex |-> codex,
                    total_frequency_essence |-> totalMass,
                    compressed_bit_stream |-> writer'.scroll,
                    mystical_word_grimoire |-> grimoire]
    /\ pc' = "encoded"
    /\ UNCHANGED <<inputVars, grimoire, symbols, codex, totalMass, symPos,
                   low, high, scaleSteps, callVars, apiVars, decVars>>

\* A second call of weave_compression_spell on the same manuscript; the
\* first call's artifact is kept for comparison.
WeaveAgain ==
    /\ pc = "encoded"
    /\ calls = 1
    /\ prior' = artifact
    /\ calls' = 2
    /\ grimoire' = <<>> /\ symbols' = <<>> /\ codex' = <<>> /\ totalMass' = 0
    /\ symPos' = 1 /\ low' = 0 /\ high' = ARITHMETIC_PRECISION_LIMIT
    /\ writer' = NewWriter /\ scaleSteps' = 0 /\ artifact' = EmptyArtifact
    /\ pc' = "start"
    /\ UNCHANGED <<inputVars, apiVars, decVars>>

\* -------------------------------------------------------- simple_api

\* compress_data after its call of weave_compression_spell: the buffer.
CompressData ==
    /\ pc = "encoded"
    /\ wire' = SerializeArtifact(artifact)
    /\ pc' = "serialized"
    /\ UNCHANGED <<inputVars, weaveVars, scaleSteps, callVars, compressed,
                   decVars>>

\* The buffer with the low byte of its bitstream length raised by one.
InflatedStreamLength(buf, a) ==
    LET at == Len(buf) - Len(a.compressed_bit_stream) - 3
    IN  [buf EXCEPT ![at] = (@ + 1) % 256]

\* Buffers a caller may hand to decompress_data: the buffer compress_data
\* returned, each of its proper prefixes, and the buffer with its declared
\* bitstream length raised.
Deliveries(buf, a) ==
    {SubSeq(buf, 1, k) : k \in 0..Len(buf)} \cup {InflatedStreamLength(buf, a)}

\* decompress_data up to its call of unweave_compression_spell: parse the
\* buffer; an index or slice past its end panics.
DecompressData ==
    /\ pc = "serialized"
    /\ \E buf \in Deliveries(wire, artifact) :
         /\ compressed' = buf
         /\ LET p == ParseArtifact(buf)
            IN  IF p.panicked
                THEN /\ pc' = "panicked"
                     /\ UNCHANGED enchanted
                ELSE /\ pc' = "unweave"
                     /\ enchanted' = p.value
    /\ UNCHANGED <<inputVars, weaveVars, scaleSteps, callVars, wire, reader,
                   dlow, dhigh, decoded, discovered, restored>>

\* ----------------------------------------------------------- decoder

\* unweave_compression_spell called on the artifact weave returned.
UnweaveDirect ==
    /\ pc = "encoded"
    /\ enchanted' = artifact
    /\ pc' = "unweave"
    /\ UNCHANGED <<inputVars, weaveVars, scaleSteps, callVars, apiVars,
                   reader, dlow, dhigh, decoded, discovered, restored>>

\* unweave_compression_spell up to its loop: the reader primed with 24
\* bits, the full interval.
UnweaveBegin ==
    /\ pc = "unweave"
    /\ reader' = ConjureFromScroll(enchanted.compressed_bit_stream)
    /\ dlow' = 0 /\ dhigh' = ARITHMETIC_PRECISION_LIMIT
    /\ decoded' = <<>>
    /\ pc' = "decode"
    /\ UNCHANGED <<inputVars, weaveVars, scaleSteps, callVars, apiVars,
                   enchanted, discovered, restored>>

\* One iteration of the loop of unweave_compression_spell, up to the call
\* of normalize: the target, the symbol it resolves to, the narrowing.  A
\* symbol without an entry is pushed with the interval untouched.  (A
\* window below low, or a high below 0, is a subtraction underflowing.)
DecodeSymbol ==
    /\ pc = "decode"
    /\ Len(decoded) < enchanted.total_frequency_essence
    /\ IF reader.tracker < dlow
       THEN /\ pc' = "subtract_overflow"
            /\ UNCHANGED <<dlow, dhigh, decoded, discovered, scaleSteps>>
       ELSE LET target == DecodeMysticalTarget(reader.tracker,
                              enchanted.total_frequency_essence, dlow, dhigh)
                sym == DiscoveredSymbol(enchanted.mystical_frequency_codex, target)
                e == FindSymbol(enchanted.mystical_frequency_codex, sym, 1)
            IN  /\ discovered' = sym
                /\ IF e = 0
                   THEN /\ decoded' = Append(decoded, sym)
                        /\ UNCHANGED <<pc, dlow, dhigh, scaleSteps>>
                   ELSE LET entry == enchanted.mystical_frequency_codex[e]
                            n == Narrow(dlow, dhigh, entry[3], entry[3] + entry[2],
                                        enchanted.total_frequency_essence)
                        IN  /\ dlow' = n[1]
                            /\ dhigh' = n[2]
                            /\ scaleSteps' = 0
                            /\ pc' = IF n[2] < 0 THEN "subtract_overflow"
                                     ELSE "dec_normalize"
                            /\ UNCHANGED decoded
    /\ UNCHANGED <<inputVars, weaveVars, callVars, apiVars, enchanted, reader,
                   restored>>

\* One iteration of the loop of BitMagicReader::normalize; on `break` the
\* symbol is pushed.  (A window below the offset to subtract is a u32
\* subtraction underflowing.)
DecNormalizeAt(here, after) ==
    /\ pc = here
    /\ scaleSteps < MaxScaleSteps
    /\ LET c == ScaleCase(dlow, dhigh)
       IN  IF c = "stop"
           THEN /\ decoded' = Append(decoded, discovered)
                /\ pc' = after
                /\ UNCHANGED <<dlow, dhigh, reader, scaleSteps>>
           ELSE IF reader.tracker < ScaleOffset(c)
           THEN /\ pc' = "subtract_overflow"
                /\ UNCHANGED <<dlow, dhigh, reader, scaleSteps, decoded>>
           ELSE /\ reader' = ShiftInBit([reader EXCEPT
                                            !.tracker = @ - ScaleOffset(c)])
                /\ dlow' = 2 * (dlow - ScaleOffset(c))
                /\ dhigh' = 2 * (dhigh - ScaleOffset(c)) + 1
                /\ scaleSteps' = scaleSteps + 1
                /\ UNCHANGED <<pc, decoded>>
    /\ UNCHANGED <<inputVars, weaveVars, callVars, apiVars, enchanted,
                   discovered, restored>>

DecNormalize == DecNormalizeAt("dec_normalize", "decode")

\* The end of unweave_compression_spell: symbols back to bytes.
UnweaveFinish ==
    /\ pc = "decode"
    /\ Len(decoded) >= enchanted.total_frequency_essence
    /\ restored' = ReconstructOriginalManuscript(decoded,
                       enchanted.mystical_word_grimoire)
    /\ pc' = "done"
    /\ UNCHANGED <<inputVars, weaveVars, scaleSteps, callVars, apiVars,
                   enchanted, reader, dlow, dhigh, decoded, discovered>>

\* ---------------------------------------------------- specifications

\* compress_data or weave_compression_spell on a manuscript, then
\* decompress_data or unweave_compression_spell on what it returned.
Next ==
    \/ WeaveBegin
    \/ EncodeSymbol
    \/ EncNormalize
    \/ EncodeComplete
    \/ CompressData
    \/ DecompressData
    \/ UnweaveDirect
    \/ UnweaveBegin
    \/ DecodeSymbol
    \/ DecNormalize
    \/ UnweaveFinish

Spec == Init /\ [][Next]_vars

\* Two calls of weave_compression_spell on one manuscript.
NextTwice ==
    \/ WeaveBegin
    \/ EncodeSymbol
    \/ EncNormalize
    \/ EncodeComplete
    \/ WeaveAgain

SpecTwice == Init /\ [][NextTwice]_vars

\* The encoder's loop on a large frequency table.  The table is that of a
\* manuscript of up to 2^24 symbols; `symbols` holds the first MaxBigSteps
\* of them and the manuscript itself is not represented, so the loop is
\* followed over these symbols only and not to its completion.
BigCounts == {1, 2097151, 4194301, 8388607, 8388608}

BigTables ==
    {t \in {Accumulate(<<<<97, a>>, <<98, b>>, <<99, c>>>>, 0) :
                a \in BigCounts, b \in BigCounts, c \in BigCounts} :
        t[3][3] + t[3][2] <= ARITHMETIC_PRECISION_LIMIT + 1}

Occurrences(seq, v) == Cardinality({i \in 1..Len(seq) : seq[i] = v})

InitBig ==
    /\ pc = "encode"
    /\ testBuild = FALSE
    /\ manuscript = <<>>
    /\ almanac = <<>> /\ cursor = 0 /\ wordBuffer = <<>>
    /\ codex \in BigTables
    /\ totalMass = codex[3][3] + codex[3][2]
    /\ symbols \in UNION {[1..n -> {97, 98, 99}] : n \in 1..MaxBigSteps}
    /\ \A e \in 1..3 : Occurrences(symbols, codex[e][1]) <= codex[e][2]
    /\ grimoire = <<>>
    /\ symPos = 1 /\ low = 0 /\ high = ARITHMETIC_PRECISION_LIMIT
    /\ writer = NewWriter /\ scaleSteps = 0 /\ artifact = EmptyArtifact
    /\ calls = 1 /\ prior = EmptyArtifact
    /\ wire = <<>> /\ compressed = <<>>
    /\ written = <<>> /\ received = <<>> /\ pendingBefore = 0
    /\ DecoderIdle

NextBig ==
    \/ EncodeSymbol
    \/ EncNormalize

SpecBig == InitBig /\ [][NextBig]_vars

\* unweave_compression_spell called on an artifact of the caller's making
\* (the fields of CompressionArtifact are public).
MaxStreamLen == 2

StreamBytes == {0, 90, 128, 255}

\* Tables with contiguous ranges over the symbols 97, 256 and 257, each
\* absent or counted once or twice.
CraftedTables ==
    {Accumulate(SelectSeq(<<<<97, a>>, <<256, b>>, <<257, c>>>>,
                          LAMBDA pair : pair[2] > 0), 0) :
        a \in 0..2, b \in 0..2, c \in 0..2}

TableTotal(t) == IF t = <<>> THEN 0 ELSE t[Len(t)][3] + t[Len(t)][2]

CraftedArtifacts ==
    {[mystical_frequency_codex |-> t,
      total_frequency_essence |-> TableTotal(t),
      compressed_bit_stream |-> b,
      mystical_word_grimoire |-> g] :
        t \in CraftedTables,
        b \in UNION {[1..n -> StreamBytes] : n \in 0..MaxStreamLen},
        g \in {<<>>, <<The>>}}

\* Artifacts with a large table: the tables of BigTables, each with every
\* bitstream of MaxStreamLen bytes.
BigArtifacts ==
    {[mystical_frequency_codex |-> t,
      total_frequency_essence |-> TableTotal(t),
      compressed_bit_stream |-> b,
      mystical_word_grimoire |-> <<>>] :
        t \in BigTables, b \in [1..MaxStreamLen -> StreamBytes]}

InitDecode ==
    /\ pc = "unweave"
    /\ testBuild = FALSE
    /\ manuscript = <<>>
    /\ almanac = <<>> /\ cursor = 0 /\ wordBuffer = <<>>
    /\ EncoderIdle
    /\ calls = 1 /\ prior = EmptyArtifact
    /\ wire = <<>> /\ compressed = <<>>
    /\ written = <<>> /\ received = <<>> /\ pendingBefore = 0
    /\ enchanted \in CraftedArtifacts \cup BigArtifacts
    /\ reader = NoReader
    /\ dlow = 0 /\ dhigh = ARITHMETIC_PRECISION_LIMIT
    /\ decoded = <<>> /\ discovered = 0 /\ restored = <<>>

\* A decode of more than MaxFollowedTotal symbols is followed over its
\* first MaxBigSteps symbols only.
MaxFollowedTotal == 1024

FollowedDecode ==
    \/ enchanted.total_frequency_essence <= MaxFollowedTotal
    \/ Len(decoded) < MaxBigSteps

NextDecode ==
    \/ UnweaveBegin
    \/ (FollowedDecode /\ DecodeSymbol)
    \/ DecNormalize
    \/ UnweaveFinish

SpecDecode == InitDecode /\ [][NextDecode]_vars

InitCrafted == InitDecode /\ enchanted \in CraftedArtifacts

\* The call runs on: it is single-threaded and synchronous, nothing makes
\* it wait.
SpecDecodeFair ==
    /\ InitCrafted
    /\ [][NextDecode]_vars
    /\ WF_vars(NextDecode)

\* Artifacts a caller may build by hand (the fields are public) or a
\* corrupted buffer may parse to: tables of up to two entries with any
\* count and start in 0..MaxMalformedCount, any declared total in
\* 0..MaxMalformedCount + 1.
MaxMalformedCount == 2

MalformedEntries ==
    {<<sym, count, start>> : sym \in {97, 98},
                             count \in 0..MaxMalformedCount,
                             start \in 0..MaxMalformedCount}

MalformedStreams == {<<>>, <<90>>, <<128, 0, 0>>, <<255, 255, 255>>}

MalformedArtifacts ==
    {[mystical_frequency_codex |-> t,
      total_frequency_essence |-> n,
      compressed_bit_stream |-> b,
      mystical_word_grimoire |-> <<>>] :
        t \in {<<>>} \cup {<<e>> : e \in MalformedEntries}
                     \cup {<<e, f>> : e \in MalformedEntries, f \in MalformedEntries},
        n \in 0..(MaxMalformedCount + 1),
        b \in MalformedStreams}

InitMalformed ==
    /\ pc = "unweave"
    /\ testBuild = FALSE
    /\ manuscript = <<>>
    /\ almanac = <<>> /\ cursor = 0 /\ wordBuffer = <<>>
    /\ EncoderIdle
    /\ calls = 1 /\ prior = EmptyArtifact
    /\ wire = <<>> /\ compressed = <<>>
    /\ written = <<>> /\ received = <<>> /\ pendingBefore = 0
    /\ enchanted \in MalformedArtifacts
    /\ reader = NoReader
    /\ dlow = 0 /\ dhigh = ARITHMETIC_PRECISION_LIMIT
    /\ decoded = <<>> /\ discovered = 0 /\ restored = <<>>

\* An iteration of normalize is followed while the values it doubles stay
\* below MaxFollowedValue (the source's u32 holds them up to 2^32 - 1).
MaxFollowedValue == 268435456

FollowedNormalize ==
    /\ dlow < MaxFollowedValue
    /\ dhigh < MaxFollowedValue
    /\ reader.tracker < MaxFollowedValue

NextMalformed ==
    \/ UnweaveBegin
    \/ DecodeSymbol
    \/ (FollowedNormalize /\ DecNormalize)
    \/ UnweaveFinish

SpecMalformed == InitMalformed /\ [][NextMalformed]_vars

\* Every call of the encoder and of the decoder the specifications above
\* follow, in one specification.  WholeSequence tells the runs in which
\* `symbols` is the whole symbol sequence (its length is the table's
\* total) from those of InitBig, where the loop of weave has symbols left
\* beyond the ones represented and so does not get to its end.
WholeSequence == Len(symbols) = totalMass

InitCodec == Init \/ InitBig \/ InitDecode

NextCodec ==
    \/ WeaveBegin
    \/ EncodeSymbol
    \/ EncNormalize
    \/ (WholeSequence /\ EncodeComplete)
    \/ CompressData
    \/ DecompressData
    \/ UnweaveDirect
    \/ UnweaveBegin
    \/ (FollowedDecode /\ DecodeSymbol)
    \/ DecNormalize
    \/ UnweaveFinish

SpecCodec == InitCodec /\ [][NextCodec]_vars

\* transform_manuscript_to_symbols and reconstruct_original_manuscript
\* called on a text and a word list of the caller's choice.
WordLists ==
    {<<>>, <<The>>, <<<<97>>>>, <<<<97, 98>>>>, <<<<97>>, <<97, 98>>>>,
     <<<<97, 98>>, <<97>>>>}

WordTexts == ShortInputs \cup {TextTheme, TextThe}

InitWords ==
    /\ pc = "transform"
    /\ testBuild = TRUE
    /\ manuscript \in WordTexts
    /\ almanac = <<>> /\ cursor = 0 /\ wordBuffer = <<>>
    /\ grimoire \in WordLists
    /\ symbols = <<>> /\ codex = <<>> /\ totalMass = 0
    /\ symPos = 1 /\ low = 0 /\ high = ARITHMETIC_PRECISION_LIMIT
    /\ writer = NewWriter /\ scaleSteps = 0 /\ artifact = EmptyArtifact
    /\ calls = 1 /\ prior = EmptyArtifact
    /\ wire = <<>> /\ compressed = <<>>
    /\ written = <<>> /\ received = <<>> /\ pendingBefore = 0
    /\ DecoderIdle

TransformCall ==
    /\ pc = "transform"
    /\ symbols' = TransformManuscriptToSymbols(manuscript, grimoire)
    /\ pc' = "transformed"
    /\ UNCHANGED <<inputVars, grimoire, codex, totalMass, symPos, low, high,
                   writer, artifact, scaleSteps, callVars, apiVars, decVars>>

ReconstructCall ==
    /\ pc = "transformed"
    /\ restored' = ReconstructOriginalManuscript(symbols, grimoire)
    /\ pc' = "reconstructed"
    /\ UNCHANGED <<inputVars, weaveVars, scaleSteps, callVars, apiVars,
                   enchanted, reader, dlow, dhigh, decoded, discovered>>

NextWords ==
    \/ TransformCall
    \/ ReconstructCall

SpecWords == InitWords /\ [][NextWords]_vars

\* discover_profitable_word_enchantments on its own: on a text, or (the
\* selection alone) on the almanac the tokenising loop leaves for a text
\* of many words.
MaxAlmanacWords == 27

\* "aaa", "aab", ..., "aaz", "aba", ...
AlmanacWord(k) == <<97, 97 + ((k - 1) \div 26), 97 + ((k - 1) % 26)>>

AlmanacIndex(w) == (w[2] - 97) * 26 + (w[3] - 97) + 1

\* Almanacs of 25 to MaxAlmanacWords words with 2 to 6 occurrences each.
BigAlmanacs ==
    {[w \in {AlmanacWord(k) : k \in 1..n} |-> least + ((AlmanacIndex(w) * m) % 3)] :
        n \in (MaxAlmanacWords - 2)..MaxAlmanacWords, m \in 0..2, least \in 2..4}

\* "The the The the The the The the"
TextCase == <<84, 104, 101>> \o Sp \o The \o Sp \o <<84, 104, 101>> \o Sp \o The \o Sp
            \o <<84, 104, 101>> \o Sp \o The \o Sp \o <<84, 104, 101>> \o Sp \o The
\* "the the the"
TextThrice == The \o Sp \o The \o Sp \o The
\* "ab ab ab ab ab"
TextPairs == <<97, 98, 32, 97, 98, 32, 97, 98, 32, 97, 98, 32, 97, 98>>

DiscoverTexts == Texts \cup {TextCase, TextThrice, TextPairs, TextTheme}

InitDiscover ==
    /\ testBuild \in BOOLEAN
    /\ \/ pc = "discover" /\ manuscript \in DiscoverTexts /\ almanac = <<>>
       \/ pc = "select" /\ manuscript = <<>> /\ almanac \in BigAlmanacs
    /\ cursor = 0 /\ wordBuffer = <<>>
    /\ EncoderIdle
    /\ calls = 1 /\ prior = EmptyArtifact
    /\ wire = <<>> /\ compressed = <<>>
    /\ written = <<>> /\ received = <<>> /\ pendingBefore = 0
    /\ DecoderIdle

\* The library build returns no words for a text under 1000 bytes.
DiscoverRefuse ==
    /\ pc = "discover"
    /\ BelowMinimumSize(manuscript, testBuild)
    /\ grimoire' = <<>>
    /\ pc' = "selected"
    /\ UNCHANGED <<inputVars, symbols, codex, totalMass, symPos, low, high,
                   writer, artifact, scaleSteps, callVars, apiVars, decVars>>

\* The tokenising loop.
DiscoverTokenize ==
    /\ pc = "discover"
    /\ ~BelowMinimumSize(manuscript, testBuild)
    /\ almanac' = WordFrequencyAlmanac(manuscript)
    /\ pc' = "select"
    /\ UNCHANGED <<testBuild, manuscript, scanVars, channelVars, weaveVars,
                   scaleSteps, callVars, apiVars, decVars>>

\* The filter, the sort and the cut, in some iteration order of the map.
DiscoverSelect ==
    /\ pc = "select"
    /\ \E order \in HashOrders(DOMAIN almanac) :
         grimoire' = SelectProfitableWords(order, almanac)
    /\ pc' = "selected"
    /\ UNCHANGED <<inputVars, symbols, codex, totalMass, symPos, low, high,
                   writer, artifact, scaleSteps, callVars, apiVars, decVars>>

NextDiscover ==
    \/ DiscoverRefuse
    \/ DiscoverTokenize
    \/ DiscoverSelect

SpecDiscover == InitDiscover /\ [][NextDiscover]_vars

\* weave_compression_spell on a long text, its loops followed ScenarioChunk
\* iterations at a time, and after it a run of the same coder on the bytes
\* alone (transform with no words, analyze, the coding loop); `prior` keeps
\* the artifact of the first.
ScenarioLength == 10000

\* "the cat sat on the mat"
Phrase ==
    <<116, 104, 101, 32, 99, 97, 116, 32, 115, 97, 116, 32,
      111, 110, 32, 116, 104, 101, 32, 109, 97, 116>>

\* The phrase repeated, ScenarioLength bytes of it.
ScenarioText == [i \in 1..ScenarioLength |-> Phrase[((i - 1) % Len(Phrase)) + 1]]

InitScenario ==
    /\ pc = "start"
    /\ testBuild = FALSE
    /\ manuscript = ScenarioText
    /\ almanac = <<>> /\ cursor = 0 /\ wordBuffer = <<>>
    /\ EncoderIdle
    /\ calls = 1 /\ prior = EmptyArtifact
    /\ wire = <<>> /\ compressed = <<>>
    /\ written = <<>> /\ received = <<>> /\ pendingBefore = 0
    /\ DecoderIdle

\* Loop iterations followed in one step.
ScenarioChunk == 500

\* ScenarioChunk iterations of the loop of transform_manuscript_to_symbols.
TransformChunk ==
    /\ pc = "transform"
    /\ cursor < Len(manuscript)
    /\ LET r == TransformRun(manuscript, grimoire, <<<<>>, cursor + 1>>,
                             ScenarioChunk)
       IN  /\ symbols' = symbols \o r[1]
           /\ cursor' = r[2] - 1
    /\ UNCHANGED <<pc, testBuild, manuscript, almanac, wordBuffer,
                   channelVars, grimoire, codex, totalMass, symPos, low, high, writer, artifact,
                   scaleSteps, callVars, apiVars, decVars>>

\* The loop of transform has ended: analyze_symbolic_frequencies, a fresh
\* writer, the full interval.
TransformEnd ==
    /\ pc = "transform"
    /\ cursor >= Len(manuscript)
    /\ \E symOrder \in HashOrders(DOMAIN Tally(symbols, <<>>)) :
         LET fa == AnalyzeSymbolicFrequencies(symbols, symOrder)
         IN  /\ codex' = fa.frequency_entries
             /\ totalMass' = fa.total_frequency_mass
    /\ symPos' = 1 /\ low' = 0 /\ high' = ARITHMETIC_PRECISION_LIMIT
    /\ writer' = NewWriter /\ scaleSteps' = 0
    /\ pc' = "encode"
    /\ UNCHANGED <<inputVars, grimoire, symbols, artifact, callVars, apiVars,
                   decVars>>

\* ScenarioChunk iterations of the coding loop of weave_compression_spell.
EncodeChunk ==
    /\ pc = "encode"
    /\ symPos <= Len(symbols)
    /\ LET st == EncodeRun([low |-> low, high |-> high, writer |-> writer,
                            pos |-> symPos],
                           symbols, codex, totalMass, ScenarioChunk)
       IN  /\ low' = st.low
           /\ high' = st.high
           /\ writer' = st.writer
           /\ symPos' = st.pos
    /\ UNCHANGED <<pc, inputVars, grimoire, symbols, codex, totalMass,
                   artifact, scaleSteps, callVars, apiVars, decVars>>

\* discover_profitable_word_enchantments passes its size check and starts
\* its tokenising loop (the text is ASCII, so the characters of
\* from_utf8_lossy are its bytes).
ScenarioDiscover ==
    /\ pc = "start"
    /\ ~BelowMinimumSize(manuscript, testBuild)
    /\ manuscript \in Seq(0..127)
    /\ almanac' = <<>> /\ cursor' = 0 /\ wordBuffer' = <<>>
    /\ pc' = "tokenize"
    /\ UNCHANGED <<testBuild, manuscript, channelVars, weaveVars, scaleSteps,
                   callVars, apiVars, decVars>>

\* weave_compression_spell has returned: the coder starts again on the
\* same text with no words.
ScenarioBytesAlone ==
    /\ pc = "encoded"
    /\ calls = 1
    /\ prior' = artifact
    /\ calls' = 2
    /\ almanac' = <<>> /\ cursor' = 0 /\ wordBuffer' = <<>>
    /\ grimoire' = <<>> /\ symbols' = <<>> /\ codex' = <<>> /\ totalMass' = 0
    /\ symPos' = 1 /\ low' = 0 /\ high' = ARITHMETIC_PRECISION_LIMIT
    /\ writer' = NewWriter /\ scaleSteps' = 0 /\ artifact' = EmptyArtifact
    /\ pc' = "transform"
    /\ UNCHANGED <<testBuild, manuscript, channelVars, apiVars, decVars>>

\* ScenarioChunk iterations of the tokenising loop of discover.
TokenizeChunk ==
    /\ pc = "tokenize"
    /\ cursor < Len(manuscript)
    /\ LET r == TokenizeRun(manuscript, <<cursor + 1, wordBuffer, almanac>>,
                            ScenarioChunk)
       IN  /\ cursor' = r[1] - 1
           /\ wordBuffer' = r[2]
           /\ almanac' = r[3]
    /\ UNCHANGED <<pc, testBuild, manuscript, channelVars, weaveVars,
                   scaleSteps, callVars, apiVars, decVars>>

\* The tokenising loop has ended: the last word is counted, the words are
\* selected, and transform starts.
TokenizeEnd ==
    /\ pc = "tokenize"
    /\ cursor >= Len(manuscript)
    /\ almanac' = CountLastWord(wordBuffer, almanac)
    /\ \E order \in HashOrders(DOMAIN almanac') :
         grimoire' = SelectProfitableWords(order, almanac')
    /\ wordBuffer' = <<>> /\ cursor' = 0
    /\ pc' = "transform"
    /\ UNCHANGED <<testBuild, manuscript, channelVars, symbols, codex,
                   totalMass, symPos, low, high, writer, artifact, scaleSteps, callVars, apiVars,
                   decVars>>

NextScenario ==
    \/ ScenarioDiscover
    \/ TokenizeChunk
    \/ TokenizeEnd
    \/ TransformChunk
    \/ TransformEnd
    \/ EncodeChunk
    \/ EncodeComplete
    \/ ScenarioBytesAlone

SpecScenario == InitScenario /\ [][NextScenario]_vars

\* weave_compression_spell on texts around the minimum size, in both
\* builds, its loops followed ScenarioChunk iterations at a time.

\* n bytes of the phrase repeated.
PhraseText(n) == [i \in 1..n |-> Phrase[((i - 1) % Len(Phrase)) + 1]]

\* n bytes of "the " repeated.
TheText(n) == [i \in 1..n |-> (The \o Sp)[((i - 1) % 4) + 1]]

ThresholdLengths ==
    {0, 2 * Len(Phrase), MIN_MANUSCRIPT_SIZE - 1, MIN_MANUSCRIPT_SIZE,
     MIN_MANUSCRIPT_SIZE + 1}

ThresholdTexts ==
    {PhraseText(n) : n \in ThresholdLengths} \cup {TheText(n) : n \in ThresholdLengths}

InitThreshold ==
    /\ pc = "start"
    /\ testBuild \in BOOLEAN
    /\ manuscript \in ThresholdTexts
    /\ almanac = <<>> /\ cursor = 0 /\ wordBuffer = <<>>
    /\ EncoderIdle
    /\ calls = 1 /\ prior = EmptyArtifact
    /\ wire = <<>> /\ compressed = <<>>
    /\ written = <<>> /\ received = <<>> /\ pendingBefore = 0
    /\ DecoderIdle

\* discover_profitable_word_enchantments returns at its size check with
\* no words, and transform starts.
ScenarioRefuse ==
    /\ pc = "start"
    /\ BelowMinimumSize(manuscript, testBuild)
    /\ grimoire' = <<>>
    /\ cursor' = 0
    /\ pc' = "transform"
    /\ UNCHANGED <<testBuild, manuscript, almanac, wordBuffer, channelVars,
                   symbols, codex, totalMass, symPos, low, high, writer,
                   artifact, scaleSteps, callVars, apiVars, decVars>>

NextThreshold ==
    \/ ScenarioRefuse
    \/ ScenarioDiscover
    \/ TokenizeChunk
    \/ TokenizeEnd
    \/ TransformChunk
    \/ TransformEnd
    \/ EncodeChunk
    \/ EncodeComplete

SpecThreshold == InitThreshold /\ [][NextThreshold]_vars

\* The coding loop of weave_compression_spell on a table whose counts do
\* not fit 32 bits (the table of a manuscript of 2^32 bytes or more).  A
\* u64 of such a table is written as four 16-bit limbs, the least
\* significant first; the first iteration of the loop is followed, up to
\* the call of normalize.
LimbBase == 256 * 256

\* The u64 of a value below 2^31.
Limbs(v) == <<v % LimbBase, v \div LimbBase, 0, 0>>

\* 2^32
TwoTo32 == <<0, 0, 1, 0>>

\* a + b in u64.
AddLimbs(a, b) ==
    LET s1 == a[1] + b[1]
        s2 == a[2] + b[2] + (s1 \div LimbBase)
        s3 == a[3] + b[3] + (s2 \div LimbBase)
        s4 == a[4] + b[4] + (s3 \div LimbBase)
    IN  <<s1 % LimbBase, s2 % LimbBase, s3 % LimbBase, s4 % LimbBase>>

\* `v as u32`: the low 32 bits.
CastU32(v) == <<v[1], v[2], 0, 0>>

\* The number a u32 below 2^31 writes.
LimbsValue(v) == v[1] + LimbBase * v[2]

WideCounts == {Limbs(1), Limbs(2), TwoTo32, AddLimbs(TwoTo32, Limbs(1))}

\* The table of a manuscript of the byte 0, or of the bytes 0 and 1, with
\* these counts.
WideTables ==
    {<<<<0, a, Limbs(0)>>>> : a \in WideCounts}
    \cup {<<<<0, a, Limbs(0)>>, <<1, b, a>>>> : a \in WideCounts, b \in WideCounts}

InitWide ==
    /\ pc = "encode_wide"
    /\ testBuild = FALSE
    /\ manuscript = <<>>
    /\ almanac = <<>> /\ cursor = 0 /\ wordBuffer = <<>>
    /\ codex \in WideTables
    /\ totalMass = AddLimbs(codex[Len(codex)][3], codex[Len(codex)][2])
    /\ symbols \in {<<codex[e][1]>> : e \in 1..Len(codex)}
    /\ grimoire = <<>>
    /\ symPos = 1 /\ low = 0 /\ high = ARITHMETIC_PRECISION_LIMIT
    /\ writer = NewWriter /\ scaleSteps = 0 /\ artifact = EmptyArtifact
    /\ calls = 1 /\ prior = EmptyArtifact
    /\ wire = <<>> /\ compressed = <<>>
    /\ written = <<>> /\ received = <<>> /\ pendingBefore = 0
    /\ DecoderIdle

\* One iteration of the loop of weave_compression_spell, up to the call of
\* normalize, with the casts of lines 54-56 written out.  A total that the
\* cast makes 0 is a division by zero in encode_mystical_symbol (a panic);
\* a high below 0 is the u64 subtraction underflowing.
EncodeSymbolWide ==
    /\ pc = "encode_wide"
    /\ symPos <= Len(symbols)
    /\ LET e == FindSymbol(codex, symbols[symPos], 1)
       IN  IF e = 0
           THEN /\ symPos' = symPos + 1
                /\ UNCHANGED <<pc, low, high>>
           ELSE LET symbol_start == LimbsValue(CastU32(codex[e][3]))
                    symbol_end ==
                        LimbsValue(CastU32(AddLimbs(codex[e][3], codex[e][2])))
                    total_mass == LimbsValue(CastU32(totalMass))
                IN  /\ UNCHANGED symPos
                    /\ IF total_mass = 0
                       THEN /\ pc' = "panicked"
                            /\ UNCHANGED <<low, high>>
                       ELSE LET n == Narrow(low, high, symbol_start, symbol_end,
                                            total_mass)
                            IN  /\ low' = n[1]
                                /\ high' = n[2]
                                /\ pc' = IF n[2] < 0 THEN "subtract_overflow"
                                         ELSE "narrowed"
    /\ UNCHANGED <<inputVars, grimoire, symbols, codex, totalMass, writer,
                   scaleSteps, artifact, callVars, apiVars, decVars>>

\* Every call of the encoder followed above, and the wide tables.
InitEncode == Init \/ InitBig \/ InitWide

NextEncode ==
    \/ WeaveBegin
    \/ EncodeSymbol
    \/ EncNormalize
    \/ (pc = "encode" /\ WholeSequence /\ EncodeComplete)
    \/ EncodeSymbolWide

SpecEncode == InitEncode /\ [][NextEncode]_vars

\* The encoder running on, on every manuscript of Init and on the large
\* tables with a total below 2^(P-2): the call is single-threaded and
\* synchronous, nothing makes it wait.
InitWeave == Init \/ (InitBig /\ totalMass < FIRST_QTR)

\* The coding loop and the completion after it.
WeaveLoop ==
    \/ EncodeSymbol
    \/ EncNormalize
    \/ (WholeSequence /\ EncodeComplete)

NextWeave == WeaveBegin \/ WeaveLoop

SpecWeaveFair ==
    /\ InitWeave
    /\ [][NextWeave]_vars
    /\ WF_vars(WeaveLoop)

\* unweave_compression_spell on an artifact whose counts need more than 32
\* bits: the first iteration of its loop with the casts of lines 71, 80 and
\* 97-99 written out, then normalize.

\* a < b in u64.
LimbsLess(a, b) ==
    \/ a[4] < b[4]
    \/ a[4] = b[4] /\ a[3] < b[3]
    \/ a[4] = b[4] /\ a[3] = b[3] /\ a[2] < b[2]
    \/ a[4] = b[4] /\ a[3] = b[3] /\ a[2] = b[2] /\ a[1] < b[1]

\* 2^32 - 766
WideCount == <<64770, 65535, 0, 0>>

\* The wide tables, and one whose first range ends above the truncated
\* total: 769 + (2^32 - 766) = 2^32 + 3.
WideDecodeTables ==
    WideTables \cup {<<<<0, Limbs(769), Limbs(0)>>, <<1, WideCount, Limbs(769)>>>>}

WideArtifacts ==
    {[mystical_frequency_codex |-> t,
      total_frequency_essence |-> AddLimbs(t[Len(t)][3], t[Len(t)][2]),
      compressed_bit_stream |-> b,
      mystical_word_grimoire |-> <<>>] :
        t \in WideDecodeTables,
        b \in UNION {[1..n -> StreamBytes] : n \in 0..1}}

\* The state at the top of the loop of unweave_compression_spell, first
\* iteration.
InitUnweaveWide ==
    /\ pc = "decode_wide"
    /\ testBuild = FALSE
    /\ manuscript = <<>>
    /\ almanac = <<>> /\ cursor = 0 /\ wordBuffer = <<>>
    /\ EncoderIdle
    /\ calls = 1 /\ prior = EmptyArtifact
    /\ wire = <<>> /\ compressed = <<>>
    /\ written = <<>> /\ received = <<>> /\ pendingBefore = 0
    /\ enchanted \in WideArtifacts
    /\ reader = ConjureFromScroll(enchanted.compressed_bit_stream)
    /\ dlow = 0 /\ dhigh = ARITHMETIC_PRECISION_LIMIT
    /\ decoded = <<>> /\ discovered = 0 /\ restored = <<>>

\* (((2^64 - 1) / 2^24) as u32: the target of a build without overflow
\* checks when the cast total is 0, on the first iteration.
WrappedTarget == <<65535, 65535, 0, 0>>

\* The `find` of lines 76-82 with its casts: the first entry with
\* target >= cumulative_start as u32 and target < symbol_end as u32.
RECURSIVE FindByTargetCast(_, _, _)
FindByTargetCast(table, target, i) ==
    IF i > Len(table) THEN 0
    ELSE IF /\ ~LimbsLess(target, CastU32(table[i][3]))
            /\ LimbsLess(target, CastU32(AddLimbs(table[i][3], table[i][2])))
         THEN i
    ELSE FindByTargetCast(table, target, i + 1)

\* ((2^24 * v) / t) as u32 for t below 128: the quotient of
\* update_mystical_intervals on the first iteration (low = 0, range = 2^24),
\* in limbs.
ScaledQuotientCast(v, t) ==
    LET f == (16777216 * (v % t)) \div t
    IN  <<f % LimbBase, ((v \div t) % 256) * 256 + f \div LimbBase, 0, 0>>

\* (q - 1) as u32 for a u64 q whose low 32 bits are given.
MinusOneCast(q) ==
    IF q[1] > 0 THEN <<q[1] - 1, q[2], 0, 0>>
    ELSE IF q[2] > 0 THEN <<LimbBase - 1, q[2] - 1, 0, 0>>
    ELSE <<LimbBase - 1, LimbBase - 1, 0, 0>>

\* The first iteration.  A cast total of 0 makes `... * 0 - 1` underflow
\* in decode_mystical_target: a panic in a build with overflow checks, the
\* wrapped target in one without, and then the division by 0 of
\* update_mystical_intervals panics.  The narrowed interval goes on to
\* normalize when it fits 31 bits, and is kept in limbs otherwise.  (Each
\* \E names a value computed once.)
DecodeSymbolWide ==
    /\ pc = "decode_wide"
    /\ LET table == enchanted.mystical_frequency_codex
           total_mass == LimbsValue(CastU32(enchanted.total_frequency_essence))
       IN  IF total_mass = 0
           THEN /\ pc' = "panicked"
                /\ \/ UNCHANGED discovered
                   \/ LET i == FindByTargetCast(table, WrappedTarget, 1)
                      IN  discovered' = IF i > 0 THEN table[i][1]
                                        ELSE table[1][1]
                /\ UNCHANGED <<dlow, dhigh, scaleSteps>>
           ELSE \E target \in {DecodeMysticalTarget(reader.tracker, total_mass,
                                                      dlow, dhigh)} :
                \E i \in {FindByTargetCast(table, Limbs(target), 1)} :
                \E sym \in {IF i > 0 THEN table[i][1] ELSE table[1][1]} :
                \E e \in {FindSymbol(table, sym, 1)} :
                \E symbol_start \in {LimbsValue(CastU32(table[e][3]))},
                   symbol_end \in {LimbsValue(CastU32(AddLimbs(table[e][3],
                                                               table[e][2])))} :
                \E newHigh \in {MinusOneCast(
                                    ScaledQuotientCast(symbol_end, total_mass))},
                   newLow \in {ScaledQuotientCast(symbol_start, total_mass)} :
                    /\ discovered' = sym
                    /\ scaleSteps' = 0
                    /\ IF newHigh[2] < 32768 /\ newLow[2] < 32768
                       THEN /\ dlow' = LimbsValue(newLow)
                            /\ dhigh' = LimbsValue(newHigh)
                            /\ pc' = "normalize_wide"
                       ELSE /\ dlow' = newLow
                            /\ dhigh' = newHigh
                            /\ pc' = "narrowed_wide"
    /\ UNCHANGED <<inputVars, weaveVars, callVars, apiVars, enchanted, reader,
                   decoded, restored>>

\* Every decode followed above, and the wide artifacts: on these the first
\* iteration and its normalize.
InitUnweave == InitDecode \/ InitUnweaveWide

NextUnweave ==
    \/ (pc \in {"unweave", "decode", "dec_normalize"} /\ NextDecode)
    \/ DecodeSymbolWide
    \/ DecNormalizeAt("normalize_wide", "resolved_wide")

SpecUnweave == InitUnweave /\ [][NextUnweave]_vars

\* The crafted and the wide artifacts, with the call running on.
InitUnweaveFair == InitCrafted \/ InitUnweaveWide

SpecUnweaveFair ==
    /\ InitUnweaveFair
    /\ [][NextUnweave]_vars
    /\ WF_vars(NextUnweave)

\* Every call of the encoder and of the decoder on tables with values below
\* 2^31, and the first iteration of the encoder on the wide tables.
InitCoder == InitCodec \/ InitWide

NextCoder ==
    \/ (pc \notin {"encode_wide", "narrowed", "panicked", "subtract_overflow"}
           /\ NextCodec)
    \/ EncodeSymbolWide

SpecCoder == InitCoder /\ [][NextCoder]_vars

\* The bit channel on its own: calls of write_bit, bit_plus_follow and the
\* deferral of normalize on a writer, complete_compression_ritual, then a
\* reader on the buffer it leaves and calls of read_bit.

\* write_bit on each bit of a sequence in turn.
RECURSIVE WriteAll(_, _)
WriteAll(w, bits) ==
    IF bits = <<>> THEN w ELSE WriteAll(WriteBit(w, Head(bits)), Tail(bits))

\* What the writer has been given when it is first seen: nothing, or the
\* 16 bits of 0xA5 0x0F, 0x00 0x01 or 0xFF 0xFE.
ChannelPrefixes ==
    {<<>>,
     <<1, 0, 1, 0, 0, 1, 0, 1, 0, 0, 0, 0, 1, 1, 1, 1>>,
     <<0, 0, 0, 0, 0, 0, 0, 0, 0, 0, 0, 0, 0, 0, 0, 1>>,
     <<1, 1, 1, 1, 1, 1, 1, 1, 1, 1, 1, 1, 1, 1, 1, 0>>}

\* Two bytes.
PrefixBits == 2 * 8

\* Bits written past the prefix for which calls are followed.
MaxChannelBits == 5
\* Pending bits up to which deferrals are followed.
MaxPending == 3
\* Calls of read_bit followed on one reader.
MaxReads == 48

InitChannel ==
    /\ pc = "channel"
    /\ testBuild = FALSE
    /\ manuscript = <<>>
    /\ almanac = <<>> /\ cursor = 0 /\ wordBuffer = <<>>
    /\ grimoire = <<>> /\ symbols = <<>> /\ codex = <<>> /\ totalMass = 0
    /\ symPos = 1 /\ low = 0 /\ high = ARITHMETIC_PRECISION_LIMIT
    /\ scaleSteps = 0 /\ artifact = EmptyArtifact
    /\ calls = 1 /\ prior = EmptyArtifact
    /\ wire = <<>> /\ compressed = <<>>
    /\ written \in ChannelPrefixes
    /\ writer = WriteAll(NewWriter, written)
    /\ received = <<>> /\ pendingBefore = 0
    /\ DecoderIdle

\* The writer is between two calls.
WriterOpen == pc \in {"channel", "written", "deferred", "followed"}

\* Bits written since the prefix.
PastPrefix == Len(written) % PrefixBits

otherVars ==
    <<testBuild, manuscript, almanac, scanVars, grimoire, symbols, codex,
      totalMass, symPos, low, high, artifact, scaleSteps, callVars, apiVars>>

\* write_bit(bit)
ChannelWriteBit ==
    /\ WriterOpen
    /\ PastPrefix < MaxChannelBits
    /\ \E bit \in {0, 1} :
         /\ writer' = WriteBit(writer, bit)
         /\ written' = Append(written, bit)
    /\ pendingBefore' = writer.pending
    /\ pc' = "written"
    /\ UNCHANGED <<otherVars, received, decVars>>

\* The deferral of normalize: pending_mystical_bits += 1.
ChannelDefer ==
    /\ WriterOpen
    /\ writer.pending < MaxPending
    /\ writer' = [writer EXCEPT !.pending = @ + 1]
    /\ pendingBefore' = writer.pending
    /\ pc' = "deferred"
    /\ UNCHANGED <<otherVars, written, received, decVars>>

\* bit_plus_follow(bit)
ChannelBitPlusFollow ==
    /\ WriterOpen
    /\ PastPrefix < MaxChannelBits
    /\ \E bit \in {0, 1} :
         /\ writer' = BitPlusFollow(writer, bit)
         /\ written' = written \o BitPlusFollowCalls(writer, bit)
    /\ pendingBefore' = writer.pending
    /\ pc' = "followed"
    /\ UNCHANGED <<otherVars, received, decVars>>

\* complete_compression_ritual
ChannelComplete ==
    /\ WriterOpen
    /\ writer' = CompleteCompressionRitual(writer)
    /\ written' = written \o CompleteCalls(writer)
    /\ pendingBefore' = writer.pending
    /\ pc' = "completed"
    /\ UNCHANGED <<otherVars, received, decVars>>

\* conjure_from_scroll on the buffer, up to its loop.
ChannelOpen ==
    /\ pc = "completed"
    /\ reader' = [scroll |-> writer.scroll, byte_pos |-> 0, bit_pos |-> 0,
                  tracker |-> 0]
    /\ pc' = "priming"
    /\ UNCHANGED <<otherVars, channelVars, writer, enchanted, dlow, dhigh,
                   decoded, discovered, restored>>

\* One iteration of the loop of conjure_from_scroll: a read_bit, shifted
\* into the window; after the 24th the reader is returned.
ChannelPrime ==
    /\ pc = "priming"
    /\ received' = Append(received, ReadBitValue(reader))
    /\ reader' = ShiftInBit(reader)
    /\ pc' = IF Len(received') = WINDOW_BITS THEN "reading" ELSE "priming"
    /\ UNCHANGED <<otherVars, written, pendingBefore, writer, enchanted, dlow,
                   dhigh, decoded, discovered, restored>>

\* read_bit on the reader returned.
ChannelRead ==
    /\ pc = "reading"
    /\ Len(received) < MaxReads
    /\ received' = Append(received, ReadBitValue(reader))
    /\ reader' = ReadBitAdvance(reader)
    /\ UNCHANGED <<pc, otherVars, written, pendingBefore, writer, enchanted,
                   dlow, dhigh, decoded, discovered, restored>>

NextChannel ==
    \/ ChannelWriteBit
    \/ ChannelDefer
    \/ ChannelBitPlusFollow
    \/ ChannelComplete
    \/ ChannelOpen
    \/ ChannelPrime
    \/ ChannelRead

SpecChannel == InitChannel /\ [][NextChannel]_vars

\* The writer inside the encoder and on its own.
InitWriter == Init \/ InitChannel

NextWriter == Next \/ NextChannel

SpecWriter == InitWriter /\ [][NextWriter]_vars

\* transform_manuscript_to_symbols followed one iteration of its loop at a
\* time, on a text and a word list of the caller's choice, then
\* reconstruct_original_manuscript on what it returned.

\* Longest text drawn from SubstituteBytes.
MaxTextLen == 4
\* A call of transform that has pushed this many symbols is followed no
\* further.
MaxSymbols == 6

\* Space, apostrophe, two letters.
SubstituteBytes == {32, 39, 97, 98}

SubstituteTexts == UNION {[1..n -> SubstituteBytes] : n \in 0..MaxTextLen}

\* No word; "a"; "a", "ab" and "ab", "a" (one a prefix of the other); "a"
\* twice; "'"; "a'"; "'a" after "a"; "a b"; the empty word; the empty word
\* after "a".
SubstituteWordLists ==
    {<<>>, <<<<97>>>>, <<<<97>>, <<97, 98>>>>, <<<<97, 98>>, <<97>>>>,
     <<<<97>>, <<97>>>>, <<<<39>>>>, <<<<97, 39>>>>, <<<<97>>, <<39, 97>>>>,
     <<<<97, 32, 98>>>>, <<<<>>>>, <<<<97>>, <<>>>>}

InitSubstitute ==
    /\ pc = "transform"
    /\ testBuild = TRUE
    /\ manuscript \in SubstituteTexts
    /\ almanac = <<>> /\ cursor = 0 /\ wordBuffer = <<>>
    /\ grimoire \in SubstituteWordLists
    /\ symbols = <<>> /\ codex = <<>> /\ totalMass = 0
    /\ symPos = 1 /\ low = 0 /\ high = ARITHMETIC_PRECISION_LIMIT
    /\ writer = NewWriter /\ scaleSteps = 0 /\ artifact = EmptyArtifact
    /\ calls = 1 /\ prior = EmptyArtifact
    /\ wire = <<>> /\ compressed = <<>>
    /\ written = <<>> /\ received = <<>> /\ pendingBefore = 0
    /\ DecoderIdle

\* One iteration of the loop of transform_manuscript_to_symbols.
SubstituteSymbol ==
    /\ pc = "transform"
    /\ cursor < Len(manuscript)
    /\ Len(symbols) < MaxSymbols
    /\ LET r == TransformStep(manuscript, grimoire, <<symbols, cursor + 1>>)
       IN  /\ symbols' = r[1]
           /\ cursor' = r[2] - 1
    /\ UNCHANGED <<pc, testBuild, manuscript, almanac, wordBuffer,
                   channelVars, grimoire, codex, totalMass, symPos, low, high,
                   writer, artifact, scaleSteps, callVars, apiVars, decVars>>

\* The loop's condition fails: transform returns its symbols.
SubstituteReturn ==
    /\ pc = "transform"
    /\ cursor >= Len(manuscript)
    /\ pc' = "transformed"
    /\ UNCHANGED <<inputVars, weaveVars, scaleSteps, callVars, apiVars,
                   decVars>>

NextSubstitute ==
    \/ SubstituteSymbol
    \/ SubstituteReturn
    \/ ReconstructCall

SpecSubstitute == InitSubstitute /\ [][NextSubstitute]_vars

\* ------------------------------------------------------------ claims

\* The encoder inside normalize with an interval of no width.
EmptyInterval == pc = "enc_normalize" /\ high < low

\* An interval of no width is one normalize never leaves: it takes E1 or
\* E2, never `break`, and the step keeps high below low.
EmptyIntervalIsKept ==
    [][EmptyInterval =>
          /\ ScaleCase(low, high) \in {"E1", "E2"}
          /\ EmptyInterval']_vars

\* A decode of the artifact weave returned gives the manuscript back.
RestoresManuscript ==
    (pc = "done" /\ enchanted = artifact) => restored = manuscript

\* C1: for every byte sequence x, unweave_compression_spell of
\* weave_compression_spell(x) returns exactly x: the decode of the
\* returned artifact restores the manuscript, and weave is never in a
\* state it cannot return from (an interval of no width, see
\* EmptyIntervalIsKept).
C1_RoundTrip == RestoresManuscript /\ ~EmptyInterval

\* C2: two calls of weave_compression_spell on one manuscript return
\* artifacts equal in every field, whatever the order in which the hash
\* maps are iterated.
C2_Deterministic == (calls = 2 /\ pc = "encoded") => artifact = prior

\* decompress_data has been called on a buffer.
Delivered ==
    /\ pc \in {"panicked", "unweave", "decode", "dec_normalize", "done"}
    /\ wire # <<>>

\* Parsing the buffer compress_data wrote gives the artifact back, field
\* for field, and decoding it the manuscript.
ParseInvertsSerialize ==
    (Delivered /\ compressed = wire) =>
        /\ pc # "panicked"
        /\ enchanted = artifact
        /\ pc = "done" => restored = manuscript

\* C3: parsing the buffer written by compress_data gives back the
\* encoder's artifact in all four fields, so that decompress_data of
\* compress_data(x) is x for every byte sequence x; compress_data, which
\* calls weave, is never in a state it cannot return from.
C3_SerializationRoundTrip == ParseInvertsSerialize /\ ~EmptyInterval

\* The artifact of the empty manuscript: nothing but the two bits of the
\* completion, padded to a byte.
ArtifactOfNothing ==
    [mystical_frequency_codex |-> <<>>, total_frequency_essence |-> 0,
     compressed_bit_stream |-> <<128>>, mystical_word_grimoire |-> <<>>]

\* C4: the empty manuscript gives an empty table, total 0 and an empty
\* dictionary; neither encode nor decode narrows the interval even once;
\* the bitstream is the one byte the completion makes; and the decode of
\* that artifact returns the empty sequence.
C4_EmptyInput ==
    manuscript = <<>> =>
        /\ pc \notin {"enc_normalize", "dec_normalize", "subtract_overflow"}
        /\ low = 0 /\ high = ARITHMETIC_PRECISION_LIMIT /\ symPos = 1
        /\ dlow = 0 /\ dhigh = ARITHMETIC_PRECISION_LIMIT /\ decoded = <<>>
        /\ pc # "start" => (grimoire = <<>> /\ codex = <<>> /\ totalMass = 0)
        /\ pc \notin {"start", "encode"} => artifact = ArtifactOfNothing
        /\ pc \in {"unweave", "decode", "done"} => enchanted = ArtifactOfNothing
        /\ pc = "done" => restored = <<>>

C4_Witness ==
    /\ manuscript = <<>> /\ pc = "done"
    /\ enchanted = artifact /\ artifact.compressed_bit_stream = <<128>>

\* low and high are within the 24 bits and in order.
InBounds(lo, hi) == 0 <= lo /\ lo <= hi /\ hi <= ARITHMETIC_PRECISION_LIMIT

\* The subtraction the next iteration of normalize makes does not go
\* below zero.
SubtractionIsSafe(lo, hi) ==
    lo >= ScaleOffset(ScaleCase(lo, hi)) /\ hi >= ScaleOffset(ScaleCase(lo, hi))

C6_FailsFast ==
    totalMass >= FIRST_QTR =>
        /\ low <= high
        /\ scaleSteps <= WINDOW_BITS

\* C7: a decode that resolved a symbol >= 256 with no word for it in the
\* artifact's dictionary does not return bytes.
C7_CorruptReference ==
    pc = "done" =>
        \A i \in 1..Len(decoded) :
            decoded[i] >= 256 =>
                decoded[i] - 256 < Len(enchanted.mystical_word_grimoire)

\* Whether s is a proper prefix of t.
IsProperPrefix(s, t) == Len(s) < Len(t) /\ s = SubSeq(t, 1, Len(s))

\* The buffer given to decompress_data ends before a read its own fields
\* call for: it is cut short, or declares a longer bitstream than it has.
ReadsPastEnd ==
    \/ IsProperPrefix(compressed, wire)
    \/ compressed = InflatedStreamLength(wire, artifact)

\* C8: on a buffer whose counts, lengths or fixed-width fields call for a
\* read past its end decompress_data aborts before any decoding: no
\* artifact reaches the decoder and no bytes are returned.
C8_FormatFailure ==
    (Delivered /\ ReadsPastEnd) => (pc = "panicked" /\ DecoderIdle)

C8_Witness ==
    /\ pc = "panicked"
    /\ compressed = InflatedStreamLength(wire, artifact)
    /\ artifact.mystical_word_grimoire # <<>>

\* C9: the table has one entry per distinct symbol, with that symbol's
\* number of occurrences (at least 1) for count, ids strictly ascending,
\* the first start 0, each start the previous start plus its count, and
\* the last start plus count = the sum of the counts = the total = the
\* length of the symbol sequence.
C9_TableInvariant ==
    pc # "start" =>
        LET n == Len(codex)
        IN  /\ {codex[i][1] : i \in 1..n} = {symbols[j] : j \in 1..Len(symbols)}
            /\ \A i \in 1..n :
                  /\ codex[i][2] = Occurrences(symbols, codex[i][1])
                  /\ codex[i][2] >= 1
            /\ \A i \in 1..(n - 1) :
                  /\ codex[i][1] < codex[i + 1][1]
                  /\ codex[i][3] + codex[i][2] = codex[i + 1][3]
            /\ n > 0 => codex[1][3] = 0
            /\ TableTotal(codex) = totalMass
            /\ SumFrequencies([i \in 1..n |-> <<codex[i][1], codex[i][2]>>]) = totalMass
            /\ totalMass = Len(symbols)

C9_Witness ==
    /\ pc = "encode"
    /\ Len(codex) = 3
    /\ codex[3][1] = 257
    /\ \E i \in 1..3 : codex[i][2] > 1

\* The bytes symbol sym stands for.
SymbolWidth(sym, words) == IF sym < 256 THEN 1 ELSE Len(words[sym - 255])

\* The position (from 1) in the manuscript of the bytes the i-th symbol
\* stands for.
RECURSIVE PositionOf(_, _, _)
PositionOf(syms, words, i) ==
    IF i = 1 THEN 1
    ELSE PositionOf(syms, words, i - 1) + SymbolWidth(syms[i - 1], words)

\* C10: a symbol 256+index stands only where the word occurs with a
\* non-letter or the start of the input before it and a non-letter or the
\* end of the input after it; of "theme the theory the" with the
\* dictionary ["the"], the two standalone words become 256 and all the
\* rest stays raw bytes.
C10_WordBoundaries ==
    pc \in {"transformed", "reconstructed"} =>
        /\ \A i \in 1..Len(symbols) :
              symbols[i] >= 256 =>
                  LET w == grimoire[symbols[i] - 255]
                      at == PositionOf(symbols, grimoire, i)
                  IN  /\ SubSeq(manuscript, at, at + Len(w) - 1) = w
                      /\ at = 1 \/ ~IsAsciiAlphabetic(manuscript[at - 1])
                      /\ \/ at + Len(w) > Len(manuscript)
                         \/ ~IsAsciiAlphabetic(manuscript[at + Len(w)])
        /\ (manuscript = TextTheme /\ grimoire = <<The>>) =>
              symbols = <<116, 104, 101, 109, 101, 32, 256, 32,
                          116, 104, 101, 111, 114, 121, 32, 256>>

C10_Witness ==
    /\ pc = "transformed"
    /\ manuscript = TextTheme /\ grimoire = <<The>>
    /\ Occurrences(symbols, 256) = 2

\* The decoder is inside unweave_compression_spell, past its first lines.
Decoding == pc \in {"decode", "dec_normalize", "done", "subtract_overflow"}

\* The decode has returned, or (a decode of more than MaxFollowedTotal
\* symbols) has resolved the symbols it is followed for, or (a decode on a
\* table with counts above 32 bits) has resolved its first symbol.
DecodeEnded ==
    \/ pc \in {"resolved_wide", "narrowed_wide"}
    \/ pc = "done"
    \/ (pc = "decode" /\ ~FollowedDecode)

\* C11: on an artifact whose table is well formed, whatever the
\* bitstream, the decode ends, having resolved exactly
\* total_frequency_mass symbols: no subtraction fails, no call of
\* normalize makes more iterations than the window has bits, the reader
\* never moves past the end of its buffer, and a read at the end leaves
\* its position alone and shifts a 0 into the window.
C11_DecodeTerminates ==
    /\ [](Decoding =>
            /\ Len(decoded) <= enchanted.total_frequency_essence
            /\ pc = "done" => Len(decoded) = enchanted.total_frequency_essence
            /\ pc # "subtract_overflow"
            /\ scaleSteps <= WINDOW_BITS
            /\ reader.byte_pos <= Len(reader.scroll)
            /\ reader.byte_pos = Len(reader.scroll) => reader.bit_pos = 0)
    /\ [][(Decoding /\ reader.byte_pos = Len(reader.scroll) /\ reader' # reader) =>
            /\ reader'.byte_pos = reader.byte_pos
            /\ reader'.bit_pos = reader.bit_pos
            /\ reader'.scroll = reader.scroll
            /\ reader'.tracker % 2 = 0]_vars
    /\ <>DecodeEnded

C11_Witness ==
    /\ pc = "done"
    /\ Len(decoded) = 3
    /\ enchanted.compressed_bit_stream = <<>>
    /\ Len(enchanted.mystical_frequency_codex) = 2

\* The symbols a table has an entry for.
CodexSymbols(table) == {table[i][1] : i \in 1..Len(table)}

\* The decoder is about to resolve a target no entry of the table covers.
Unresolvable ==
    /\ pc = "decode"
    /\ Len(decoded) < enchanted.total_frequency_essence
    /\ reader.tracker >= dlow
    /\ FindByTarget(enchanted.mystical_frequency_codex,
                    DecodeMysticalTarget(reader.tracker,
                        enchanted.total_frequency_essence, dlow, dhigh), 1) = 0

\* An iteration of the decoder's normalize that leaves the interval and the
\* reader as they were: the loop never ends.
LoopsForever ==
    /\ pc = "dec_normalize"
    /\ ScaleCase(dlow, dhigh) # "stop"
    /\ reader.tracker >= ScaleOffset(ScaleCase(dlow, dhigh))
    /\ dlow = 2 * (dlow - ScaleOffset(ScaleCase(dlow, dhigh)))
    /\ dhigh = 2 * (dhigh - ScaleOffset(ScaleCase(dlow, dhigh))) + 1
    /\ reader = ShiftInBit([reader EXCEPT
                               !.tracker = @ - ScaleOffset(ScaleCase(dlow, dhigh))])

\* C12: on any artifact, well formed or not, the decode returns the
\* complete output or fails: no iteration of normalize repeats itself for
\* ever, a returned output holds only symbols the table has an entry for,
\* and a target no entry covers ends the decode instead of a symbol being
\* pushed or narrowed on in its place.
C12_AllOrNothing ==
    /\ [](~LoopsForever)
    /\ [](pc = "done" =>
            \A i \in 1..Len(decoded) :
                decoded[i] \in CodexSymbols(enchanted.mystical_frequency_codex))
    /\ [][Unresolvable => (decoded' = decoded /\ pc' # "dec_normalize")]_vars

\* The u32 stored little-endian in the 4 bytes after offset `at`.
U32At(buf, at) ==
    buf[at + 1] + 256 * buf[at + 2] + 65536 * buf[at + 3] + 16777216 * buf[at + 4]

\* The u64 stored little-endian in the 8 bytes after offset `at`, when its
\* upper half is zero.
U64At(buf, at) == U32At(buf, at)

UpperHalfIsZero(buf, at) == \A i \in 5..8 : buf[at + i] = 0

\* Bytes the dictionary words before word k take, length fields included.
RECURSIVE WordsSize(_, _)
WordsSize(words, k) ==
    IF k = 0 THEN 0 ELSE WordsSize(words, k - 1) + 4 + Len(words[k])

\* The buffer is the artifact laid out field after field and nothing else.
LaidOut(buf, a) ==
    LET words == a.mystical_word_grimoire
        entries == a.mystical_frequency_codex
        stream == a.compressed_bit_stream
        wordAt(k) == 4 + WordsSize(words, k - 1)
        tableAt == 4 + WordsSize(words, Len(words))
        entryAt(k) == tableAt + 4 + 20 * (k - 1)
        totalAt == tableAt + 4 + 20 * Len(entries)
        streamAt == totalAt + 8
    IN  /\ Len(buf) = streamAt + 4 + Len(stream)
        /\ U32At(buf, 0) = Len(words)
        /\ \A k \in 1..Len(words) :
             /\ U32At(buf, wordAt(k)) = Len(words[k])
             /\ SubSeq(buf, wordAt(k) + 5, wordAt(k) + 4 + Len(words[k])) = words[k]
        /\ U32At(buf, tableAt) = Len(entries)
        /\ \A k \in 1..Len(entries) :
             /\ U32At(buf, entryAt(k)) = entries[k][1]
             /\ U64At(buf, entryAt(k) + 4) = entries[k][2]
             /\ UpperHalfIsZero(buf, entryAt(k) + 4)
             /\ U64At(buf, entryAt(k) + 12) = entries[k][3]
             /\ UpperHalfIsZero(buf, entryAt(k) + 12)
        /\ U64At(buf, totalAt) = a.total_frequency_essence
        /\ UpperHalfIsZero(buf, totalAt)
        /\ U32At(buf, streamAt) = Len(stream)
        /\ SubSeq(buf, streamAt + 5, Len(buf)) = stream

\* C13: the buffer compress_data returns is the artifact's fields in the
\* order word count, words (length, bytes), entry count, entries (symbol,
\* count, start), total, bitstream length, bitstream, each integer
\* little-endian in its fixed width, and nothing else; decompress_data,
\* reading the fields in that order with those widths, consumes the whole
\* buffer and rebuilds the artifact.
C13_SerializedLayout ==
    wire # <<>> =>
        /\ LaidOut(wire, artifact)
        /\ ~ParseArtifact(wire).panicked
        /\ ParseArtifact(wire).cursor = Len(wire)
        /\ ParseArtifact(wire).value = artifact

C13_Witness ==
    /\ pc = "done"
    /\ compressed = wire
    /\ Len(artifact.mystical_word_grimoire) >= 1
    /\ Len(artifact.mystical_frequency_codex) >= 2
    /\ Len(artifact.compressed_bit_stream) >= 2

IsWordByte(b) == IsAsciiAlphabetic(b) \/ b = 39

\* Positions (from 1) of x where a maximal run of letters and apostrophes
\* starts, and the run that starts there.
RunStarts(x) ==
    {p \in 1..Len(x) : IsWordByte(x[p]) /\ (p = 1 \/ ~IsWordByte(x[p - 1]))}

RunAt(x, p) ==
    LET q == CHOOSE e \in p..Len(x) :
                 /\ \A i \in p..e : IsWordByte(x[i])
                 /\ e = Len(x) \/ ~IsWordByte(x[e + 1])
    IN  SubSeq(x, p, q)

\* How many of the runs of x are the word w, byte for byte.
TokenFrequency(x, w) == Cardinality({p \in RunStarts(x) : RunAt(x, p) = w})

Qualifies(w) == almanac[w] > 3 /\ Len(w) * almanac[w] > Len(w) + 4

EstimatedSavings(w) == Len(w) * almanac[w] - (Len(w) + 4)

\* C14: the words counted are the maximal runs of ASCII letters and
\* apostrophes at least 3 long, each with the number of runs equal to it
\* byte for byte; a word is selected only if it occurs more than 3 times
\* and L * F > L + 4; the selected words stand in descending order of
\* L * F - (L + 4); they are at most 25; and when more than 25 words
\* qualify, 25 are kept and none left out has higher savings than one kept.
C14_Discovery ==
    /\ (pc \in {"select", "selected"} /\ manuscript # <<>> /\ testBuild) =>
         /\ \A w \in DOMAIN almanac :
              Len(w) >= 3 /\ almanac[w] = TokenFrequency(manuscript, w)
         /\ \A p \in RunStarts(manuscript) :
              Len(RunAt(manuscript, p)) >= 3 =>
                  RunAt(manuscript, p) \in DOMAIN almanac
    /\ pc = "selected" =>
         LET kept == {grimoire[i] : i \in 1..Len(grimoire)}
             qualifying == {w \in DOMAIN almanac : Qualifies(w)}
         IN  /\ \A w \in kept : w \in DOMAIN almanac /\ Len(w) >= 3 /\ Qualifies(w)
             /\ Cardinality(kept) = Len(grimoire)
             /\ \A i \in 1..Len(grimoire), j \in 1..Len(grimoire) :
                  i < j => EstimatedSavings(grimoire[i]) >= EstimatedSavings(grimoire[j])
             /\ Len(grimoire) <= 25
             /\ Cardinality(qualifying) > 25 =>
                  /\ Len(grimoire) = 25
                  /\ \A out \in qualifying \ kept, in \in kept :
                       EstimatedSavings(in) >= EstimatedSavings(out)

C14_Witness ==
    /\ pc = "selected"
    /\ Cardinality({w \in DOMAIN almanac : Qualifies(w)}) > 25
    /\ Len(grimoire) = 25
    /\ EstimatedSavings(grimoire[1]) > EstimatedSavings(grimoire[25])

\* The words of a dictionary.
WordsOf(words) == {words[i] : i \in 1..Len(words)}

\* C15: on 10,000 bytes of "the cat sat on the mat" repeated, the encoder
\* returns a dictionary that contains "the", it codes fewer symbols than
\* the text has bytes, and its bitstream, and the buffer compress_data
\* makes of its artifact, are shorter than those of the same coder run on
\* the bytes alone.
C15_DictionaryPays ==
    /\ (calls = 1 /\ pc \in {"transform", "encode", "encoded"}) =>
         The \in WordsOf(grimoire)
    /\ (calls = 1 /\ pc \in {"encode", "encoded"}) =>
         Len(symbols) < Len(manuscript)
    /\ (calls = 2 /\ pc = "encoded") =>
         /\ The \in WordsOf(prior.mystical_word_grimoire)
         /\ artifact.mystical_word_grimoire = <<>>
         /\ Len(prior.compressed_bit_stream)
                < Len(artifact.compressed_bit_stream)
         /\ Len(SerializeArtifact(prior)) < Len(SerializeArtifact(artifact))

C15_Witness ==
    /\ calls = 2 /\ pc = "encoded"
    /\ Len(manuscript) = ScenarioLength
    /\ Len(prior.mystical_word_grimoire) = 4
    /\ artifact.total_frequency_essence = ScenarioLength
    /\ prior.total_frequency_essence < ScenarioLength

\* The encoder's [low, high, writer, pos] before its i-th symbol: the coding
\* loop run over the i - 1 symbols before it.
EncoderBefore(i) ==
    EncodeRun([low |-> 0, high |-> ARITHMETIC_PRECISION_LIMIT,
               writer |-> NewWriter, pos |-> 1],
              symbols, codex, totalMass, i - 1)

\* The intervals normalize passes through from <<l, h>>, one per iteration,
\* the one it starts from first and the one it stops at last.
RECURSIVE ScaleTrack(_, _)
ScaleTrack(l, h) ==
    LET c == ScaleCase(l, h)
    IN  IF c = "stop" THEN <<<<l, h>>>>
        ELSE <<<<l, h>>>> \o ScaleTrack(2 * (l - ScaleOffset(c)),
                                        2 * (h - ScaleOffset(c)) + 1)

\* The intervals of the encoder's normalize on its i-th symbol.
EncoderTrack(i) ==
    LET st == EncoderBefore(i)
        e == FindSymbol(codex, symbols[i], 1)
        n == Narrow(st.low, st.high, codex[e][3], codex[e][3] + codex[e][2],
                    totalMass)
    IN  ScaleTrack(n[1], n[2])

\* The cases of the encoder's normalize on its i-th symbol, "stop" last.
EncoderCases(i) ==
    LET track == EncoderTrack(i)
    IN  [k \in 1..Len(track) |-> ScaleCase(track[k][1], track[k][2])]

\* The encoder in its loop is where the loop run as a whole puts it.
EncoderOnTrack ==
    /\ pc = "encode" =>
         LET st == EncoderBefore(symPos)
         IN  low = st.low /\ high = st.high /\ writer = st.writer
    /\ pc = "enc_normalize" =>
         /\ scaleSteps < Len(EncoderTrack(symPos))
         /\ <<low, high>> = EncoderTrack(symPos)[scaleSteps + 1]

\* The decoder is at work on the artifact the encoder returned.
DecodingOwnArtifact ==
    /\ pc \in {"decode", "dec_normalize", "subtract_overflow", "done"}
    /\ artifact # EmptyArtifact
    /\ enchanted = artifact
    /\ totalMass < FIRST_QTR

\* C16: while the decoder works on an artifact the encoder returned, of
\* total below 2^(P-2): before its i-th symbol its (low, high) is the
\* encoder's before the encoder's i-th symbol; inside normalize, after k
\* iterations, its (low, high) is the encoder's after k iterations on the
\* same symbol, and the case it takes next is the encoder's next case; the
\* symbol it has resolved is the encoder's i-th, and so is every symbol it
\* has pushed.
C16_Lockstep ==
    /\ EncoderOnTrack
    /\ DecodingOwnArtifact =>
         LET i == Len(decoded) + 1
         IN  /\ pc # "subtract_overflow"
             /\ Len(decoded) <= Len(symbols)
             /\ \A j \in 1..Len(decoded) : decoded[j] = symbols[j]
             /\ pc = "decode" =>
                  /\ dlow = EncoderBefore(i).low
                  /\ dhigh = EncoderBefore(i).high
             /\ pc = "dec_normalize" =>
                  /\ i <= Len(symbols)
                  /\ discovered = symbols[i]
                  /\ scaleSteps < Len(EncoderTrack(i))
                  /\ <<dlow, dhigh>> = EncoderTrack(i)[scaleSteps + 1]
                  /\ ScaleCase(dlow, dhigh) = EncoderCases(i)[scaleSteps + 1]
             /\ pc = "done" => decoded = symbols

\* The decoder about to take E3 on the third symbol of an artifact the
\* encoder returned, having taken other cases before.
C16_Witness ==
    /\ DecodingOwnArtifact
    /\ pc = "dec_normalize"
    /\ Len(decoded) >= 1
    /\ scaleSteps >= 1
    /\ ScaleCase(dlow, dhigh) = "E3"

\* n copies of a bit.
Repeat(bit, n) == [i \in 1..n |-> bit]

\* The bits of a buffer, each byte's from its most significant.
BufferBits(scroll) ==
    [i \in 1..(8 * Len(scroll)) |->
        (scroll[((i - 1) \div 8) + 1] \div Pow2(7 - ((i - 1) % 8))) % 2]

\* The bits a writer holds: those of its buffer, then the bits gathered in
\* the accumulator, the oldest first.
ChannelBits(w) ==
    BufferBits(w.scroll)
    \o [i \in 1..w.brewing |-> (w.cauldron \div Pow2(w.brewing - i)) % 2]

\* The step adds to the channel bit b, then 1 - b once per pending bit,
\* and nothing else, and leaves no pending bit.
EmitsExactly(b) ==
    /\ ChannelBits(writer')
         = ChannelBits(writer) \o <<b>> \o Repeat(1 - b, writer.pending)
    /\ writer'.pending = 0

\* The step adds one pending bit and leaves the buffer and the accumulator
\* as they were.
DefersOnly ==
    /\ writer'.pending = writer.pending + 1
    /\ writer'.scroll = writer.scroll
    /\ writer'.cauldron = writer.cauldron
    /\ writer'.brewing = writer.brewing

\* C17: bit_plus_follow(b) with k pending bits adds to the channel exactly
\* k + 1 bits, b then k copies of 1 - b, in k + 1 calls of write_bit, and
\* leaves the pending counter at 0, called on its own or by normalize for
\* E1 (b = 0) and E2 (b = 1); an E3 deferral adds 1 to the pending counter
\* and leaves the buffer and the accumulator untouched.
C17_BitPlusFollow ==
    [][/\ \A bit \in {0, 1} :
            (WriterOpen /\ pc' = "followed"
                /\ writer' = BitPlusFollow(writer, bit)) =>
              /\ EmitsExactly(bit)
              /\ written' = written \o <<bit>> \o Repeat(1 - bit, writer.pending)
       /\ (WriterOpen /\ pc' = "deferred") =>
              DefersOnly /\ written' = written
       /\ (pc = "enc_normalize" /\ scaleSteps' = scaleSteps + 1) =>
              /\ ScaleCase(low, high) = "E1" => EmitsExactly(0)
              /\ ScaleCase(low, high) = "E2" => EmitsExactly(1)
              /\ ScaleCase(low, high) = "E3" => DefersOnly]_vars

\* bit_plus_follow has returned from a call made with 2 or more pending
\* bits.
C17_Witness ==
    /\ pc = "followed"
    /\ pendingBefore >= 2
    /\ writer.pending = 0
    /\ PastPrefix = pendingBefore + 1

\* The step is the encoder's normalize applying E1: high < HALF, emit 0,
\* double.
AppliesE1 ==
    /\ high < HALF
    /\ EmitsExactly(0)
    /\ low' = 2 * low /\ high' = 2 * high + 1

\* E2: low >= HALF, emit 1, subtract HALF, double.
AppliesE2 ==
    /\ low >= HALF
    /\ EmitsExactly(1)
    /\ low' = 2 * (low - HALF) /\ high' = 2 * (high - HALF) + 1

\* E3: FIRST_QTR <= low and high < THIRD_QTR, defer, subtract FIRST_QTR,
\* double.
AppliesE3 ==
    /\ FIRST_QTR <= low /\ high < THIRD_QTR
    /\ DefersOnly
    /\ low' = 2 * (low - FIRST_QTR) /\ high' = 2 * (high - FIRST_QTR) + 1

\* Exactly one of three.
ExactlyOne(a, b, c) ==
    (a /\ ~b /\ ~c) \/ (~a /\ b /\ ~c) \/ (~a /\ ~b /\ c)

\* The interval normalize stops on.
StopsWide ==
    /\ low < HALF /\ HALF <= high
    /\ ~(FIRST_QTR <= low /\ high < THIRD_QTR)
    /\ high - low + 1 > FIRST_QTR

\* Every entry of the table with a count of 1 or more gets a sub-interval
\* that is not empty.
EverySymbolHasRoom ==
    \A e \in 1..Len(codex) :
       codex[e][2] >= 1 =>
          LET n == Narrow(low, high, codex[e][3], codex[e][3] + codex[e][2],
                          totalMass)
          IN  n[1] <= n[2]

\* C18: an iteration of the encoder's normalize either applies exactly one
\* of E1, E2, E3 (its condition holds, its bit is emitted or deferred, its
\* offset subtracted, low and high doubled, high plus 1), or stops, and
\* then writes nothing and leaves low < HALF <= high, not both
\* FIRST_QTR <= low and high < THIRD_QTR, and a width above FIRST_QTR; with
\* a total below 2^(P-2) every symbol of count 1 or more then has a
\* sub-interval that is not empty at the next narrowing.
C18_Renormalize ==
    [][pc = "enc_normalize" =>
         /\ pc' = "enc_normalize" =>
               ExactlyOne(AppliesE1, AppliesE2, AppliesE3)
         /\ pc' = "encode" =>
               /\ StopsWide
               /\ UNCHANGED <<low, high, writer>>
               /\ totalMass < FIRST_QTR => EverySymbolHasRoom]_vars

\* normalize has stopped after at least one iteration on a symbol of count
\* 1 in a table whose total is 2^(P-2) - 1.
C18_Witness ==
    /\ pc = "encode"
    /\ symPos > 1
    /\ scaleSteps >= 1
    /\ totalMass = FIRST_QTR - 1
    /\ codex[FindSymbol(codex, symbols[symPos - 1], 1)][2] = 1
    /\ StopsWide

\* The step is complete_compression_ritual returning, in the encoder or
\* called on a writer on its own.
Completes ==
    \/ pc = "encode" /\ pc' = "encoded"
    \/ WriterOpen /\ pc' = "completed"

\* The bits the writer holds followed by 1 and one 0 more than it has
\* pending bits.
CompletedBits == ChannelBits(writer) \o <<1>> \o Repeat(0, writer.pending + 1)

\* Zero bits up to the next multiple of 8.
Padding(bits) == Repeat(0, (8 - (Len(bits) % 8)) % 8)

\* C19: complete_compression_ritual called with k pending bits writes 1,
\* then k + 1 zeros (in k + 2 calls of write_bit), then fills the last
\* byte with zeros on the right; the buffer it leaves, which is the
\* artifact's bitstream, holds the bits written and that padding, is not
\* empty, and has as many bytes as the bits written, rounded up to a
\* multiple of 8, divided by 8.
C19_Completion ==
    /\ [][Completes =>
             /\ BufferBits(writer'.scroll)
                  = CompletedBits \o Padding(CompletedBits)
             /\ Len(writer'.scroll) = (Len(CompletedBits) + 7) \div 8
             /\ writer'.scroll # <<>>
             /\ writer'.pending = 0
             /\ pc' = "completed" =>
                   written' = written \o <<1>> \o Repeat(0, writer.pending + 1)
             /\ pc' = "encoded" =>
                   artifact'.compressed_bit_stream = writer'.scroll]_vars
    /\ [](pc = "completed" =>
             /\ BufferBits(writer.scroll) = written \o Padding(written)
             /\ Len(writer.scroll) = (Len(written) + 7) \div 8)
    /\ [](pc = "encoded" => artifact.compressed_bit_stream # <<>>)

\* A completion called with pending bits has written into a third byte
\* and padded it.
C19_Witness ==
    /\ pc = "completed"
    /\ pendingBefore >= 1
    /\ Len(written) % 8 # 0
    /\ Len(writer.scroll) = 3
    /\ SubSeq(written, Len(written) - pendingBefore - 1, Len(written))
         = <<1>> \o Repeat(0, pendingBefore + 1)

\* The number a sequence of bits writes, the first bit the most
\* significant.
RECURSIVE BitsValue(_)
BitsValue(bits) ==
    IF bits = <<>> THEN 0
    ELSE 2 * BitsValue(SubSeq(bits, 1, Len(bits) - 1)) + bits[Len(bits)]

\* The i-th bit a reader is to return: the i-th bit written, 0 after them.
ExpectedBit(i) == IF i <= Len(written) THEN written[i] ELSE 0

\* C20: what a writer holds is the bits write_bit was given, in the order
\* of the calls; after completion, the i-th read_bit of a reader on the
\* buffer returns the i-th bit written (those of the completion among
\* them), then 0 for the padding and 0 from then on, the reader moving
\* through the buffer and no further; the window of the reader returned
\* by conjure_from_scroll is the number the first 24 of these bits write.
C20_BitChannel ==
    /\ WriterOpen => ChannelBits(writer) = written
    /\ pc \in {"priming", "reading"} =>
         /\ \A i \in 1..Len(received) : received[i] = ExpectedBit(i)
         /\ 8 * Len(reader.scroll) - Len(written) \in 0..7
         /\ 8 * reader.byte_pos + reader.bit_pos
              = Min(Len(received), 8 * Len(reader.scroll))
    /\ pc = "priming" => reader.tracker = BitsValue(received)
    /\ pc = "reading" =>
         /\ Len(received) >= WINDOW_BITS
         /\ reader.tracker = BitsValue([i \in 1..WINDOW_BITS |-> ExpectedBit(i)])
         /\ reader.tracker = ConjureFromScroll(writer.scroll).tracker
         /\ Len(received) = WINDOW_BITS =>
               reader = ConjureFromScroll(writer.scroll)

\* A reader has read through a buffer of more than 24 bits and on past
\* its end; ones and zeros were written.
C20_Witness ==
    /\ pc = "reading"
    /\ Len(received) = MaxReads
    /\ Len(reader.scroll) = 4
    /\ reader.byte_pos = 4
    /\ \E i \in (PrefixBits + 1)..(Len(written) - 2) : written[i] = 1
    /\ \E i \in (PrefixBits + 1)..(Len(written) - 2) : written[i] = 0

\* A reader on a buffer of one byte: its window is that byte and 16
\* zeros.
ShortBufferWindow ==
    /\ pc = "reading"
    /\ Len(reader.scroll) = 1
    /\ reader.tracker = reader.scroll[1] * 65536
    /\ reader.tracker > 0

\* Word w stands at position pos (from 1) of the manuscript, byte for byte,
\* with no letter next to it on either side.
StandsAt(w, pos) ==
    /\ pos - 1 + Len(w) <= Len(manuscript)
    /\ SubSeq(manuscript, pos, pos + Len(w) - 1) = w
    /\ pos = 1 \/ ~IsAsciiAlphabetic(manuscript[pos - 1])
    /\ pos + Len(w) > Len(manuscript) \/ ~IsAsciiAlphabetic(manuscript[pos + Len(w)])

\* The dictionary indexes (from 1) transform accepts at the cursor: none
\* where the byte is no letter and no apostrophe.
AcceptedAtCursor ==
    IF IsWordByte(manuscript[cursor + 1])
    THEN {k \in 1..Len(grimoire) : StandsAt(grimoire[k], cursor + 1)}
    ELSE {}

\* The bytes the symbols pushed so far stand for, counted.
BytesStoodFor == PositionOf(symbols, grimoire, Len(symbols) + 1) - 1

\* C21: an iteration of the loop of transform at a letter or apostrophe
\* where dictionary words stand bounded on both sides pushes 256 + the
\* lowest index of these words and advances by that word's length; any
\* other iteration pushes the byte at the cursor and advances by one;
\* every symbol pushed is below 256 + the dictionary's length, the symbols
\* pushed stand for as many bytes as the cursor has passed, and when
\* transform has returned, for as many as the input has.
C21_Substitution ==
    /\ [][(pc = "transform" /\ pc' = "transform") =>
            LET hits == AcceptedAtCursor
            IN  IF hits # {}
                THEN LET k == CHOOSE i \in hits : \A j \in hits : i <= j
                     IN  /\ symbols' = Append(symbols, 256 + (k - 1))
                         /\ cursor' = cursor + Len(grimoire[k])
                ELSE /\ symbols' = Append(symbols, manuscript[cursor + 1])
                     /\ cursor' = cursor + 1]_vars
    /\ [](pc \in {"transform", "transformed", "reconstructed"} =>
            /\ \A i \in 1..Len(symbols) : symbols[i] < 256 + Len(grimoire)
            /\ BytesStoodFor = cursor
            /\ pc # "transform" => cursor = Len(manuscript))

\* transform has returned 257, space, 256 for "ab a" with the words "a",
\* "ab": at the first byte "a" matches and is not bounded, "ab" is taken.
C21_Witness ==
    /\ pc = "transformed"
    /\ manuscript = <<97, 98, 32, 97>>
    /\ grimoire = <<<<97>>, <<97, 98>>>>
    /\ symbols = <<257, 32, 256>>

\* reconstruct, given what transform returned and the same words, returns
\* the manuscript.
ReconstructInvertsTransform == pc = "reconstructed" => restored = manuscript

\* An iteration of the loop of transform moves the cursor on.  (The
\* iteration reads nothing but the manuscript, the words and the cursor:
\* one that leaves the cursor where it was is repeated for ever, a symbol
\* pushed each time.)
EveryIterationAdvances ==
    [][(pc = "transform" /\ pc' = "transform") => cursor' > cursor]_vars

OnlyByteIds(table) == \A e \in 1..Len(table) : table[e][1] < 256

\* C23: on an input shorter than 1000 bytes the library build skips
\* discovery: weave works with no words, each symbol it codes is the byte
\* at the same position, the table has no id of 256 or more, its total is
\* the input's length, and the artifact returned carries that table, that
\* total and an empty dictionary.
C23_BelowThreshold ==
    (~testBuild /\ Len(manuscript) < MIN_MANUSCRIPT_SIZE) =>
        /\ pc \notin {"tokenize", "select"}
        /\ almanac = <<>>
        /\ grimoire = <<>>
        /\ pc = "transform" => symbols = SubSeq(manuscript, 1, cursor)
        /\ pc \in {"encode", "encoded"} =>
              /\ symbols = manuscript
              /\ OnlyByteIds(codex)
              /\ totalMass = Len(manuscript)
        /\ pc = "encoded" =>
              /\ artifact.mystical_word_grimoire = <<>>
              /\ OnlyByteIds(artifact.mystical_frequency_codex)
              /\ artifact.total_frequency_essence = Len(manuscript)

\* The library build has returned an artifact for 999 bytes of "the cat
\* sat on the mat" repeated.
C23_Witness ==
    /\ pc = "encoded"
    /\ ~testBuild
    /\ manuscript = PhraseText(MIN_MANUSCRIPT_SIZE - 1)
    /\ artifact.total_frequency_essence = MIN_MANUSCRIPT_SIZE - 1
    /\ Len(artifact.mystical_frequency_codex) = 10

\* At 1000 bytes the library build runs discovery and finds words.
DiscoveryAtThreshold ==
    /\ pc = "encoded"
    /\ ~testBuild
    /\ Len(manuscript) = MIN_MANUSCRIPT_SIZE
    /\ The \in WordsOf(artifact.mystical_word_grimoire)

\* The coding loop on a table of values below 2^31 (where no cast changes
\* a value) looks every symbol up with success, narrows on the symbol at
\* symPos with that symbol's start, start + count and the total, and moves
\* to the next symbol when normalize has stopped, and at no other step.
CodesInOrder ==
    [][/\ (pc = "encode" /\ pc' # "encoded") =>
             LET e == FindSymbol(codex, symbols[symPos], 1)
                 range == high - low + 1
             IN  /\ e # 0
                 /\ codex[e][1] = symbols[symPos]
                 /\ pc' \in {"enc_normalize", "subtract_overflow"}
                 /\ low' = low + MulDiv(range, codex[e][3], totalMass)
                 /\ high' = low + MulDiv(range, codex[e][3] + codex[e][2],
                                         totalMass) - 1
                 /\ symPos' = symPos
       /\ (pc = "enc_normalize" /\ pc' = "encode") => symPos' = symPos + 1
       /\ (pc = "enc_normalize" /\ pc' = "enc_normalize") => symPos' = symPos
       /\ (pc = "encode" /\ pc' = "encoded") =>
             /\ symPos = Len(symbols) + 1
             /\ symPos = totalMass + 1]_vars

\* The casts of an iteration of the coding loop change no value: what it
\* gives to encode_mystical_symbol is the symbol's start, its start plus
\* its count, and the total.
Untruncated ==
    [][(pc = "encode_wide" /\ pc' # "encode_wide") =>
          LET e == FindSymbol(codex, symbols[symPos], 1)
          IN  /\ e # 0
              /\ CastU32(codex[e][3]) = codex[e][3]
              /\ CastU32(AddLimbs(codex[e][3], codex[e][2]))
                   = AddLimbs(codex[e][3], codex[e][2])
              /\ CastU32(totalMass) = totalMass]_vars

\* C24: the coding loop looks every symbol up with success and codes the
\* symbols in their order, each once, with its own range and the table's
\* total, none of them cut to 32 bits; no symbol's coding goes on for ever
\* (see EmptyIntervalIsKept), so that the narrowings come to be as many as
\* the total.
C24_CodesEachOnce == CodesInOrder /\ Untruncated /\ [](~EmptyInterval)

\* The entries of a table whose range holds a target.
Holders(table, target) ==
    {i \in 1..Len(table) :
        table[i][3] <= target /\ target < table[i][3] + table[i][2]}

\* The same for a table with its counts in limbs.
HoldersWide(table, target) ==
    {i \in 1..Len(table) :
        /\ ~LimbsLess(Limbs(target), table[i][3])
        /\ LimbsLess(Limbs(target), AddLimbs(table[i][3], table[i][2]))}

\* Before a target is computed it lies in 0..total-1 and exactly one entry
\* holds it.
TargetInTable ==
    pc = "decode" /\ Len(decoded) < enchanted.total_frequency_essence =>
        /\ reader.tracker >= dlow
        /\ LET target == DecodeMysticalTarget(reader.tracker,
                             enchanted.total_frequency_essence, dlow, dhigh)
           IN  /\ 0 <= target
               /\ target < enchanted.total_frequency_essence
               /\ Cardinality(Holders(enchanted.mystical_frequency_codex,
                                      target)) = 1

\* The symbol a step resolves is the one of the entry that holds the
\* target.
ResolvesHolder ==
    [][pc = "decode" /\ Len(decoded) < enchanted.total_frequency_essence =>
          LET table == enchanted.mystical_frequency_codex
              target == DecodeMysticalTarget(reader.tracker,
                            enchanted.total_frequency_essence, dlow, dhigh)
          IN  /\ pc' = "dec_normalize"
              /\ Holders(table, target) = {FindSymbol(table, discovered', 1)}]_vars

\* The same on a table with counts above 32 bits: the step computes a
\* target and resolves the entry that holds it.
ResolvesHolderWide ==
    [][pc = "decode_wide" =>
          LET table == enchanted.mystical_frequency_codex
              target == DecodeMysticalTarget(reader.tracker,
                            LimbsValue(CastU32(enchanted.total_frequency_essence)),
                            dlow, dhigh)
          IN  /\ pc' # "panicked"
              /\ LimbsLess(Limbs(target), enchanted.total_frequency_essence)
              /\ HoldersWide(table, target) = {FindSymbol(table, discovered', 1)}]_vars

\* C25: for every artifact with a well-formed table and every bitstream,
\* at each decode step the target lies in 0..total-1 and the symbol resolved
\* is that of the one entry whose range holds the target; the fallback to
\* the first entry is never taken.
C25_TargetResolves ==
    /\ []TargetInTable
    /\ ResolvesHolder
    /\ ResolvesHolderWide

\* The window lies in the interval and in 24 bits.
WindowInside ==
    /\ dlow <= reader.tracker
    /\ reader.tracker <= dhigh
    /\ reader.tracker <= ARITHMETIC_PRECISION_LIMIT

\* Where the claim is about: before a target is computed, and after an
\* iteration of normalize.
WindowPoints ==
    \/ pc \in {"decode", "resolved_wide"}
    \/ pc \in {"dec_normalize", "normalize_wide"} /\ scaleSteps > 0

\* C26: for every artifact with a well-formed table and every bitstream,
\* low <= window <= high before each target computation and after every
\* iteration of normalize; no subtraction from the window underflows and
\* the window stays within 24 bits.
C26_WindowInvariant ==
    /\ WindowPoints => WindowInside
    /\ pc # "subtract_overflow"

\* The calls of write_bit a writer has had: eight per byte pushed, and the
\* bits in the accumulator.
BitsWritten(w) == 8 * Len(w.scroll) + w.brewing

\* The same for a completed writer, whose last byte holds the bits of the
\* accumulator shifted up and not written.
BitsWrittenCompleted(w) ==
    8 * Len(w.scroll) - (IF w.brewing > 0 THEN 8 - w.brewing ELSE 0)

\* The scale steps of normalize over the symbols before the i-th.
RECURSIVE StepsBefore(_)
StepsBefore(i) ==
    IF i <= 1 THEN 0
    ELSE StepsBefore(i - 1) + Len(EncoderTrack(i - 1)) - 1

\* The scale steps made so far in the call.
StepsSoFar ==
    StepsBefore(symPos) + (IF pc = "enc_normalize" THEN scaleSteps ELSE 0)

\* Some symbol of the call had a deferral in its normalize.
SomeDeferral ==
    \E i \in 1..Len(symbols) :
        \E k \in 1..Len(EncoderCases(i)) : EncoderCases(i)[k] = "E3"

\* C27: at every point of an encode call the bits written plus the pending
\* counter equal the scale steps made so far; once completed, the bits
\* written are the scale steps plus 2.
C27_PendingAccounting ==
    /\ pc \in {"encode", "enc_normalize"} =>
         BitsWritten(writer) + writer.pending = StepsSoFar
    /\ pc = "encoded" =>
         BitsWrittenCompleted(writer) = StepsBefore(Len(symbols) + 1) + 2

\* A completed call with a deferral in it and a partial last byte.
C27_Witness ==
    /\ pc = "encoded"
    /\ SomeDeferral
    /\ writer.brewing > 0
    /\ StepsBefore(Len(symbols) + 1) >= 8

\* The encoder is where normalize has returned, or has not yet run: between
\* symbols, or done.
BetweenSymbols == pc \in {"encode", "encoded"} /\ totalMass < FIRST_QTR

\* The decoder has resolved every symbol of the artifact the encoder
\* returned.
DecodedOwnArtifact ==
    /\ DecodingOwnArtifact
    /\ pc = "decode"
    /\ Len(decoded) = enchanted.total_frequency_essence

\* Completion writes a 1 first, whatever the interval.
TerminatorIsOne ==
    [][pc = "encode" /\ pc' = "encoded" =>
          BufferBits(writer'.scroll)[BitsWritten(writer) + 1] = 1]_vars

\* C28: for a total below 2^(P-2) the encoder's interval between symbols,
\* and so at completion, has low < HALF <= high; completion writes a 1
\* first; the decoder's window on the returned stream, zeros read past its
\* end, is inside the decoder's interval at every point, and after the last
\* symbol it is HALF in the encoder's final interval.
C28_Terminator ==
    /\ [](BetweenSymbols => low < HALF /\ HALF <= high)
    /\ TerminatorIsOne
    /\ [](DecodingOwnArtifact /\ pc \in {"decode", "dec_normalize"} =>
             WindowInside)
    /\ [](DecodedOwnArtifact =>
             /\ reader.tracker = HALF
             /\ dlow = low /\ dhigh = high
             /\ low <= HALF /\ HALF <= high)

\* The decoder has resolved the last symbol of a stream whose completion
\* resolved a pending bit, and has read past the end of the buffer.
C28_Witness ==
    /\ DecodedOwnArtifact
    /\ Len(symbols) >= 2
    /\ LET n == BitsWrittenCompleted(writer)
           bits == BufferBits(writer.scroll)
       IN  n >= 3 /\ bits[n] = 0 /\ bits[n - 1] = 0 /\ bits[n - 2] = 1
    /\ reader.byte_pos >= Len(reader.scroll)

\* The call is coding a symbol sequence with one distinct symbol.
SingleSymbol == Len(codex) = 1 /\ symbols # <<>>

\* Every step of the encoder on such a sequence leaves the full interval,
\* makes no scale step and writes nothing before completion.
SingleSymbolKeepsInterval ==
    [][SingleSymbol /\ pc \in {"encode", "enc_normalize", "encode_wide"} =>
          /\ pc' \in {"encode", "enc_normalize", "encoded", "narrowed"}
          /\ low' = 0 /\ high' = ARITHMETIC_PRECISION_LIMIT
          /\ scaleSteps' = 0
          /\ pc' # "encoded" => writer' = NewWriter]_vars

\* Its bitstream is the empty manuscript's.
SingleSymbolStream ==
    SingleSymbol /\ pc = "encoded" =>
        /\ artifact.compressed_bit_stream = ArtifactOfNothing.compressed_bit_stream
        /\ artifact.total_frequency_essence = Len(symbols)

\* Decode returns the symbols and the manuscript.
SingleSymbolDecodes ==
    SingleSymbol /\ DecodingOwnArtifact /\ pc = "done" =>
        /\ decoded = symbols
        /\ restored = manuscript

\* C29: on a symbol sequence of one distinct symbol repeated n >= 1 times
\* every narrowing leaves (0, PRECISION_LIMIT), normalize makes no scale
\* step, nothing is written before completion, the bitstream is the one
\* byte 0x80 for every n, and decode recovers the n symbols.
C29_SingleSymbol ==
    /\ SingleSymbolKeepsInterval
    /\ []SingleSymbolStream
    /\ []SingleSymbolDecodes

\* The bits of the coder's precision, P.
PrecisionBits == 24

\* The call codes a sequence whose total is below 2^(P-2).
BelowSafetyBound ==
    pc \in {"encode", "enc_normalize"} /\ totalMass < FIRST_QTR

\* The coding loop has run over every symbol it was given, and the call has
\* returned when these are the whole sequence.
LoopDone ==
    \/ pc = "encoded"
    \/ pc = "encode" /\ symPos > Len(symbols) /\ ~WholeSequence

\* An iteration of normalize that goes round again doubles the width of
\* the interval.
WidthDoubles ==
    [][BelowSafetyBound /\ pc = "enc_normalize" /\ pc' = "enc_normalize" =>
          /\ high' - low' + 1 = 2 * (high - low + 1)
          /\ scaleSteps' = scaleSteps + 1]_vars

\* The coding loop takes the symbols one at a time: a narrowing on the
\* symbol at symPos, then normalize, and on its return the next symbol.
OncePerSymbol ==
    [][BelowSafetyBound =>
          /\ pc = "encode" /\ pc' = "enc_normalize" =>
                symPos <= Len(symbols) /\ symPos' = symPos
          /\ pc = "enc_normalize" /\ pc' = "encode" => symPos' = symPos + 1
          /\ pc' = pc => (pc = "enc_normalize" /\ symPos' = symPos)
          /\ pc' \in {"encode", "enc_normalize", "encoded"}]_vars

\* C30: on a total below 2^(P-2) the call gets to its end: normalize makes
\* at most P scale steps on a symbol, each doubling the interval's width,
\* the interval is never empty, the loop takes each symbol once, and the
\* call returns.
C30_EncodeTerminates ==
    /\ [](BelowSafetyBound => scaleSteps <= PrecisionBits /\ low <= high)
    /\ WidthDoubles
    /\ OncePerSymbol
    /\ (BelowSafetyBound ~> LoopDone)

\* normalize about to break after 20 scale steps or more on one symbol.
C30_Witness ==
    /\ BelowSafetyBound
    /\ pc = "enc_normalize"
    /\ scaleSteps >= 20
    /\ ScaleCase(low, high) = "stop"

====
